---- MODULE Spec2Model ----
(***************************************************************************)
(* A model of the SolWatcher dashboard's client library                    *)
(* (src/src/lib/solana-api.ts), its two server-side proxy handlers and the *)
(* Dashboard page that drives them.                                        *)
(*                                                                         *)
(* Every subsystem has its own specification over its own group of         *)
(* variables; the groups a specification does not use stay at their        *)
(* initial values.  Time is counted in ticks: the millisecond constants of *)
(* the source (window, TTLs, delays) are scaled to a few ticks.            *)
(***************************************************************************)
EXTENDS Integers, Sequences, FiniteSets, TLC

(***************************************************************************)
(* Generic helpers                                                         *)
(***************************************************************************)

\* number of indexes of s whose element satisfies P
CountIn(s, P(_)) == Cardinality({i \in DOMAIN s : P(s[i])})

\* Math.pow(2, n) for n >= 0
RECURSIVE Pow2(_)
Pow2(n) == IF n = 0 THEN 1 ELSE 2 * Pow2(n - 1)

Min(a, b) == IF a < b THEN a ELSE b

(***************************************************************************)
(* Bounds and input sets                                                   *)
(***************************************************************************)

\* bounds of the rate-limiter model
WindowTicks == 3      \* windowMs, in ticks
MaxRequests == 2      \* the maxRequests argument of waitForSlot
MaxClock    == 7      \* Date.now() stops advancing here
MaxAdmitted == 4      \* completed waitForSlot calls per key
NumCallers  == 3      \* concurrent async callers

Callers == 1..NumCallers
RLKeys  == {"helius-rpc", "helius-das"}

\* CACHE_TTL, in ticks (the source's 5 min / 1 min / 30 s keep their order)
TTL_TOKEN_METADATA == 3
TTL_TOKEN_PRICE    == 2
TTL_SOL_PRICE      == 1
MaxCacheClock      == 4    \* the cache specification's clock stops here
MaxEntries         == 2    \* entries held by the three caches together

Mints      == {"mintA", "mintB"}
CacheData  == {0, 7}       \* values stored: a price, or a symbol's code
CacheNames == {"tokenSymbolCache", "tokenPrices", "solPrice"}

\* retry configuration (solana-api.ts 139-140), in milliseconds
MAX_RETRIES == 3
RETRY_DELAY == 1000

\* the window of the three RateLimiter instances (171, 201-203), in milliseconds
WINDOW_MS == 60000

\* the RPC / DAS methods the library calls, and the helper each goes through
Methods == {"getBalance", "getSignaturesForAddress", "getTransaction", "getAsset", "getAssetsByOwner"}
ApiOf(method) == IF method \in {"getAsset", "getAssetsByOwner"} THEN "callDASApi" ELSE "callHeliusApi"

\* what the upstream can answer to one fetch: a JSON-RPC result, an HTTP
\* error status, a JSON-RPC error object, or no answer at all (fetch rejects)
Replies == {[kind |-> "result", value |-> 7], [kind |-> "http", value |-> 500],
            [kind |-> "rpcError", value |-> 0], [kind |-> "network", value |-> 0]}

\* the requests the code can issue, by the fetch() that issues them
RequestKinds == {"callHeliusApi", "callDASApi", "getSolPrice"}

\* the inputs of getTransactionDetails: account keys, instructions, balances
WalletKey == "WaLLet11111111111111111111111111111111111111"
OtherKey  == "otHer111111111111111111111111111111111111111"
Undefined == "undefined"
SOL_MINT  == "So11111111111111111111111111111111111111112"
USDC_MINT == "EPjFWdd5AufqSSqeM2qN1xzybapC8G4wEGGkZwyTDt1v"
LP_MINT   == "LPmint11111111111111111111111111111111111111"

\* how many requests the two proxy handlers serve in one run
MaxHandled == 3

\* page size and transaction limit (solana-api.ts 142-143), both scaled down;
\* pages are built from them
TOKEN_PAGE_SIZE == 2
TX_LIMIT == 4

\* how often an upstream may fail a call of fetchWalletData and still answer it
MaxOutages == 0

\* the signatures an address has at most, and the largest maxTransactions
MaxSignatures == 6
MaxBudget == 6

\* the largest maxPages getAllTokenAccounts is called with
MaxPages == 3

(***************************************************************************)
(* State                                                                   *)
(***************************************************************************)

VARIABLE clock    \* Date.now(), in ticks

VARIABLES
  rlRequests,   \* RateLimiter.requests : key -> list of timestamps
  rlCaller,     \* per caller: position in waitForSlot and its locals
  rlAdmitted    \* history: per key, the times at which waitForSlot resolved

rlVars == <<rlRequests, rlCaller, rlAdmitted>>

VARIABLES
  tokenSymbolCache,   \* Map<string, CacheEntry<string>>, a partial function
  tokenPrices,        \* cache.tokenPrices
  solPrice,           \* cache.solPrice : <<>> for null, else <<entry>>
  cacheGet            \* history: the last cache read and what it returned

cacheVars == <<tokenSymbolCache, tokenPrices, solPrice, cacheGet>>

VARIABLES
  apiCall,    \* per method: the position and locals of callHeliusApi / callDASApi
  apiHist,    \* history: per method, what its attempts did and when
  netSent,    \* per kind of request, how many fetch() calls have been issued
  netLog      \* history: the requests put on the network, by who sent them

apiVars == <<apiCall, apiHist>>
netVars == <<netSent, netLog>>

VARIABLES
  txDetails,   \* the getTransaction reply handed to getTransactionDetails
  txResult     \* what getTransactionDetails returned for it

txVars == <<txDetails, txResult>>

VARIABLES
  proxyEnv,    \* process.env of the two serverless functions: which keys are set
  proxyCall,   \* per proxy handler: the request it is serving, if any
  proxyLog     \* history: the requests served, with the upstream reply and the response

proxyVars == <<proxyEnv, proxyCall, proxyLog>>

VARIABLE walletCall   \* handleWalletSubmit / fetchWalletData: argument, getSolPrice, outcome

VARIABLE tokCall      \* getAllTokenAccounts: its locals and the pages it has requested

VARIABLES
  allTxCall,   \* getAllTransactions: its locals, the page being fetched, the pages requested
  utilCall,    \* a call of a utility function: its arguments and what it returned
  dash,        \* the Dashboard and its WalletInput: state, loads in flight
  priceCall    \* per cached getter: the call in progress and the calls completed

laterVars == <<allTxCall, utilCall, dash, priceCall>>

vars == <<clock, rlVars, cacheVars, apiVars, netVars, txVars, proxyVars, walletCall, tokCall,
          laterVars>>

\* what each specification leaves alone
RLFrame     == UNCHANGED <<cacheVars, apiVars, netVars, txVars, proxyVars, walletCall, tokCall, laterVars>>
CacheFrame  == UNCHANGED <<rlVars, apiVars, netVars, txVars, proxyVars, walletCall, tokCall, laterVars>>
RetryFrame  == UNCHANGED <<rlCaller, cacheVars, txVars, proxyVars, walletCall, tokCall, laterVars>>
TxFrame     == UNCHANGED <<clock, rlVars, cacheVars, apiVars, netVars, proxyVars, walletCall, tokCall, laterVars>>
ProxyFrame  == UNCHANGED <<clock, rlVars, cacheVars, apiVars, netSent, txVars, walletCall, tokCall, laterVars>>
WalletFrame == UNCHANGED <<rlCaller, rlAdmitted, tokenSymbolCache, tokenPrices, cacheGet, txVars, proxyVars, tokCall, laterVars>>
TokFrame    == UNCHANGED <<rlVars, cacheVars, netVars, txVars, proxyVars, walletCall, laterVars>>

(***************************************************************************)
(* RateLimiter (solana-api.ts 167-203)                                     *)
(***************************************************************************)

IdleCaller == [pc |-> "idle", key |-> "helius-rpc", now |-> 0, requests |-> <<>>, wakeAt |-> 0]

\* the keys of the three limiters: rpcRateLimiter, dasRateLimiter (297, 335)
\* and externalApiRateLimiter (413)
LimiterKeys == RLKeys \cup {"coingecko"}

RLInit ==
  /\ rlRequests = [k \in LimiterKeys |-> <<>>]
  /\ rlCaller = [c \in Callers |-> IdleCaller]
  /\ rlAdmitted = [k \in LimiterKeys |-> <<>>]

\* requests.filter(timestamp => timestamp > windowStart)
InWindow(reqs, windowStart) == SelectSeq(reqs, LAMBDA ts : ts > windowStart)

\* line 184-188: does the caller reach the await of the timer?
MustWaitIn(reqs, maxRequests, now, windowMs) ==
  /\ Len(reqs) >= maxRequests
  /\ Len(reqs) > 0
  /\ reqs[1] + windowMs - now > 0

MustWait(reqs, maxRequests, now) == MustWaitIn(reqs, maxRequests, now, WindowTicks)

\* waitForSlot up to its await (or to its end when it does not wait)
WaitForSlotEnter(c, key, maxRequests) ==
  /\ rlCaller[c].pc = "idle"
  /\ Len(rlAdmitted[key]) + Cardinality({d \in Callers : rlCaller[d].pc = "waiting" /\ rlCaller[d].key = key}) < MaxAdmitted
  /\ LET now == clock
         windowStart == now - WindowTicks
         requests == InWindow(rlRequests[key], windowStart)
     IN IF MustWait(requests, maxRequests, now)
        THEN /\ rlCaller' = [rlCaller EXCEPT ![c] =
                   [pc |-> "waiting", key |-> key, now |-> now, requests |-> requests,
                    wakeAt |-> now + (requests[1] + WindowTicks - now)]]
             /\ UNCHANGED <<rlRequests, rlAdmitted>>
        ELSE /\ rlRequests' = [rlRequests EXCEPT ![key] = Append(requests, now)]
             /\ rlAdmitted' = [rlAdmitted EXCEPT ![key] = Append(@, clock)]
             /\ UNCHANGED rlCaller
  /\ UNCHANGED clock
  /\ RLFrame

\* the timer of line 190 fires: requests.push(now); this.requests.set(key, requests)
WaitForSlotResume(c) ==
  /\ rlCaller[c].pc = "waiting"
  /\ clock >= rlCaller[c].wakeAt
  /\ rlRequests' = [rlRequests EXCEPT ![rlCaller[c].key] = Append(rlCaller[c].requests, rlCaller[c].now)]
  /\ rlAdmitted' = [rlAdmitted EXCEPT ![rlCaller[c].key] = Append(@, clock)]
  /\ rlCaller' = [rlCaller EXCEPT ![c] = IdleCaller]
  /\ UNCHANGED clock
  /\ RLFrame

\* time passes; a timer that is due fires before the clock moves on
RLTick ==
  /\ clock < MaxClock
  /\ \A c \in Callers : rlCaller[c].pc = "waiting" => rlCaller[c].wakeAt > clock
  /\ clock' = clock + 1
  /\ UNCHANGED <<rlRequests, rlCaller, rlAdmitted>>
  /\ RLFrame

RLNext ==
  \/ \E c \in Callers, key \in RLKeys : WaitForSlotEnter(c, key, MaxRequests)
  \/ \E c \in Callers : WaitForSlotResume(c)
  \/ RLTick

(***************************************************************************)
(* TTL caches (solana-api.ts 146-151, 205-250)                             *)
(***************************************************************************)

\* a function result: null, or a value
Null == [isNull |-> TRUE, data |-> 0]
Value(d) == [isNull |-> FALSE, data |-> d]

CacheInit ==
  /\ tokenSymbolCache = <<>>
  /\ tokenPrices = <<>>
  /\ solPrice = <<>>
  /\ cacheGet = [flip |-> FALSE, cache |-> "none", key |-> "none", result |-> Null, age |-> 0]

\* cacheMap.delete(key)
MapDelete(cacheMap, key) == [k \in DOMAIN cacheMap \ {key} |-> cacheMap[k]]

\* cacheMap.set(key, entry)
MapSet(cacheMap, key, entry) ==
  [k \in DOMAIN cacheMap \cup {key} |-> IF k = key THEN entry ELSE cacheMap[k]]

\* a TTL check that lets an entry live one tick too long
ExpiredLate(entry, ttl, now) == now - entry.timestamp > ttl + 1

\* line 216: Date.now() - entry.timestamp > ttl
Expired(entry, ttl, now) == now - entry.timestamp > ttl

\* getFromCache: the value returned, and the map it leaves
GetFromCacheResult(cacheMap, key, ttl, now) ==
  IF key \notin DOMAIN cacheMap THEN Null
  ELSE IF Expired(cacheMap[key], ttl, now) THEN Null
  ELSE Value(cacheMap[key].data)

GetFromCacheMap(cacheMap, key, ttl, now) ==
  IF key \in DOMAIN cacheMap /\ Expired(cacheMap[key], ttl, now)
  THEN MapDelete(cacheMap, key)
  ELSE cacheMap

\* setCache
SetCacheMap(cacheMap, key, data, now) == MapSet(cacheMap, key, [data |-> data, timestamp |-> now])

\* getSolPriceFromCache
GetSolPriceResult(sp, now) ==
  IF sp = <<>> THEN Null
  ELSE IF Expired(sp[1], TTL_SOL_PRICE, now) THEN Null
  ELSE Value(sp[1].data)

GetSolPriceCache(sp, now) ==
  IF sp # <<>> /\ Expired(sp[1], TTL_SOL_PRICE, now) THEN <<>> ELSE sp

\* setSolPriceCache
SetSolPriceCache(price, now) == <<[data |-> price, timestamp |-> now]>>

AgeIn(cacheMap, key, now) == IF key \in DOMAIN cacheMap THEN now - cacheMap[key].timestamp ELSE 0

\* getFromCache(tokenSymbolCache, mint, CACHE_TTL.TOKEN_METADATA)   (line 255)
GetSymbolFromCache(mint) ==
  /\ tokenSymbolCache' = GetFromCacheMap(tokenSymbolCache, mint, TTL_TOKEN_METADATA, clock)
  /\ cacheGet' = [flip |-> ~cacheGet.flip, cache |-> "tokenSymbolCache", key |-> mint,
                  result |-> GetFromCacheResult(tokenSymbolCache, mint, TTL_TOKEN_METADATA, clock),
                  age |-> AgeIn(tokenSymbolCache, mint, clock)]
  /\ UNCHANGED <<clock, tokenPrices, solPrice>>
  /\ CacheFrame

\* getFromCache(cache.tokenPrices, mint, CACHE_TTL.TOKEN_PRICE)   (line 383)
GetPriceFromCache(mint) ==
  /\ tokenPrices' = GetFromCacheMap(tokenPrices, mint, TTL_TOKEN_PRICE, clock)
  /\ cacheGet' = [flip |-> ~cacheGet.flip, cache |-> "tokenPrices", key |-> mint,
                  result |-> GetFromCacheResult(tokenPrices, mint, TTL_TOKEN_PRICE, clock),
                  age |-> AgeIn(tokenPrices, mint, clock)]
  /\ UNCHANGED <<clock, tokenSymbolCache, solPrice>>
  /\ CacheFrame

\* getSolPriceFromCache()   (line 405)
GetSolPriceFromCache ==
  /\ solPrice' = GetSolPriceCache(solPrice, clock)
  /\ cacheGet' = [flip |-> ~cacheGet.flip, cache |-> "solPrice", key |-> "solana",
                  result |-> GetSolPriceResult(solPrice, clock),
                  age |-> IF solPrice = <<>> THEN 0 ELSE clock - solPrice[1].timestamp]
  /\ UNCHANGED <<clock, tokenSymbolCache, tokenPrices>>
  /\ CacheFrame

\* the caches have room for one more entry
CacheRoom == Cardinality(DOMAIN tokenSymbolCache) + Cardinality(DOMAIN tokenPrices) + Len(solPrice) < MaxEntries

\* setCache(tokenSymbolCache, mint, symbol)   (line 265)
SetSymbolCache(mint, symbol) ==
  /\ mint \in DOMAIN tokenSymbolCache \/ CacheRoom
  /\ tokenSymbolCache' = SetCacheMap(tokenSymbolCache, mint, symbol, clock)
  /\ UNCHANGED <<clock, tokenPrices, solPrice, cacheGet>>
  /\ CacheFrame

\* setCache(cache.tokenPrices, mint, price)   (line 393)
SetPriceCache(mint, price) ==
  /\ mint \in DOMAIN tokenPrices \/ CacheRoom
  /\ tokenPrices' = SetCacheMap(tokenPrices, mint, price, clock)
  /\ UNCHANGED <<clock, tokenSymbolCache, solPrice, cacheGet>>
  /\ CacheFrame

\* setSolPriceCache(price)   (line 431)
SetSolPrice(price) ==
  /\ solPrice # <<>> \/ CacheRoom
  /\ solPrice' = SetSolPriceCache(price, clock)
  /\ UNCHANGED <<clock, tokenSymbolCache, tokenPrices, cacheGet>>
  /\ CacheFrame

CacheTick ==
  /\ clock < MaxCacheClock
  /\ clock' = clock + 1
  /\ UNCHANGED cacheVars
  /\ CacheFrame

CacheNext ==
  \/ \E mint \in Mints : GetSymbolFromCache(mint)
  \/ \E mint \in Mints : GetPriceFromCache(mint)
  \/ GetSolPriceFromCache
  \/ \E mint \in Mints, d \in CacheData : SetSymbolCache(mint, d)
  \/ \E mint \in Mints, d \in CacheData : SetPriceCache(mint, d)
  \/ \E d \in CacheData : SetSolPrice(d)
  \/ CacheTick

(***************************************************************************)
(* callHeliusApi / callDASApi (solana-api.ts 293-367)                      *)
(***************************************************************************)

IdleCall == [pc |-> "idle", retries |-> MAX_RETRIES, wakeAt |-> 0, now |-> 0, requests |-> <<>>,
             result |-> 0, error |-> [kind |-> "none", value |-> 0, attempt |-> 0]]
NoHist   == [replies |-> <<>>, started |-> <<>>, failed |-> <<>>, delays |-> <<>>]

ApiInit ==
  /\ apiCall = [m \in Methods |-> IdleCall]
  /\ apiHist = [m \in Methods |-> NoHist]
  /\ netSent = [k \in RequestKinds |-> 0]
  /\ netLog = {}

\* the rate-limiter key each helper passes to waitForSlot (297, 335)
SlotKey(api) == IF api = "callDASApi" THEN "helius-das" ELSE "helius-rpc"

\* the request each helper hands to fetch: lines 299 and 337 put
\* ?api-key=${HELIUS_API_KEY} (134, import.meta.env) into the URL
RequestOf(kind) ==
  [origin |-> "browser",
   to     |-> IF kind = "callDASApi" THEN "helius-das" ELSE "helius-rpc",
   keys   |-> {"HELIUS_API_KEY"}]

\* the end of waitForSlot (195-196) with its locals requests and now, then
\* the fetch of line 299 / 337
SlotTakenAndFetch(m, requests, now) ==
  /\ rlRequests' = [rlRequests EXCEPT ![SlotKey(ApiOf(m))] = Append(requests, now)]
  /\ rlAdmitted' = [rlAdmitted EXCEPT ![SlotKey(ApiOf(m))] = Append(@, clock)]
  /\ netSent' = [netSent EXCEPT ![ApiOf(m)] = @ + 1]
  /\ netLog' = netLog \cup {RequestOf(ApiOf(m))}
  /\ apiHist' = [apiHist EXCEPT ![m].started = Append(@, clock)]

\* a delay that grows by RETRY_DELAY per retry instead of doubling
LinearBackoff(retries) == RETRY_DELAY * (MAX_RETRIES - retries + 1)

\* line 324: RETRY_DELAY * Math.pow(2, MAX_RETRIES - retries)
BackoffDelay(retries) == RETRY_DELAY * Pow2(MAX_RETRIES - retries)

\* one pass through the try block up to its first await that takes time:
\* waitForSlot (176-192) sleeps when the window is full, else the fetch is issued
AttemptBegin(m, call) ==
  LET requests == InWindow(rlRequests[SlotKey(ApiOf(m))], clock - WINDOW_MS)
  IN IF MustWaitIn(requests, MaxRequests, clock, WINDOW_MS)
     THEN /\ apiCall' = [apiCall EXCEPT ![m] =
                           [call EXCEPT !.pc = "slotWait", !.now = clock, !.requests = requests,
                                        !.wakeAt = requests[1] + WINDOW_MS]]
          /\ UNCHANGED <<rlRequests, rlAdmitted, netVars, apiHist>>
     ELSE /\ apiCall' = [apiCall EXCEPT ![m] = [call EXCEPT !.pc = "fetching"]]
          /\ SlotTakenAndFetch(m, requests, clock)

\* callHeliusApi(method, params) / callDASApi(method, params), retries = MAX_RETRIES
ApiCallStart(m) ==
  /\ apiCall[m].pc = "idle"
  /\ AttemptBegin(m, IdleCall)
  /\ UNCHANGED clock
  /\ RetryFrame

\* the timer of line 190 fires: the slot is taken and the fetch is issued
ApiSlotGranted(m) ==
  /\ apiCall[m].pc = "slotWait"
  /\ clock >= apiCall[m].wakeAt
  /\ apiCall' = [apiCall EXCEPT ![m].pc = "fetching"]
  /\ SlotTakenAndFetch(m, apiCall[m].requests, apiCall[m].now)
  /\ UNCHANGED clock
  /\ RetryFrame

\* the fetch settles: lines 310-320 on a reply, the catch block (321-328) on a failure
ApiFetchSettles(m, reply) ==
  /\ apiCall[m].pc = "fetching"
  /\ UNCHANGED clock
  /\ IF reply.kind = "result"
     THEN /\ apiCall' = [apiCall EXCEPT ![m].pc = "returned", ![m].result = reply.value]
          /\ apiHist' = [apiHist EXCEPT ![m].replies = Append(@, reply)]
     ELSE LET error == [kind |-> reply.kind, value |-> reply.value,
                        attempt |-> Len(apiHist[m].replies) + 1]
          IN IF apiCall[m].retries > 0
             THEN /\ apiCall' = [apiCall EXCEPT ![m].pc = "backoff", ![m].error = error,
                                   ![m].wakeAt = clock' + BackoffDelay(apiCall[m].retries)]
                  /\ apiHist' = [apiHist EXCEPT ![m].replies = Append(@, reply),
                                   ![m].failed = Append(@, clock'),
                                   ![m].delays = Append(@, BackoffDelay(apiCall[m].retries))]
             ELSE /\ apiCall' = [apiCall EXCEPT ![m].pc = "thrown", ![m].error = error]
                  /\ apiHist' = [apiHist EXCEPT ![m].replies = Append(@, reply),
                                   ![m].failed = Append(@, clock')]
  /\ UNCHANGED <<rlRequests, rlAdmitted, netVars>>
  /\ RetryFrame

\* the timer of line 324 fires: return callHeliusApi(method, params, retries - 1)
ApiRetry(m) ==
  /\ apiCall[m].pc = "backoff"
  /\ clock >= apiCall[m].wakeAt
  /\ AttemptBegin(m, [apiCall[m] EXCEPT !.retries = @ - 1])
  /\ UNCHANGED clock
  /\ RetryFrame

\* the calls that sleep on a timer, of the back-off or of the rate limiter
Sleeping == {m \in Methods : apiCall[m].pc \in {"backoff", "slotWait"}}

\* time passes until the next timer is due
RetryTimerDue ==
  /\ Sleeping # {}
  /\ \A m \in Methods : apiCall[m].pc # "fetching"
  /\ \A m \in Sleeping : apiCall[m].wakeAt > clock
  /\ \E m \in Sleeping :
       /\ \A n \in Sleeping : apiCall[m].wakeAt <= apiCall[n].wakeAt
       /\ clock' = apiCall[m].wakeAt
  /\ UNCHANGED <<rlRequests, rlAdmitted, apiCall, apiHist, netVars>>
  /\ RetryFrame

\* one logical call through each helper
RetryMethods == {"getBalance", "getAsset"}

RetryNext ==
  \/ \E m \in RetryMethods : ApiCallStart(m)
  \/ \E m \in RetryMethods, reply \in Replies : ApiFetchSettles(m, reply)
  \/ \E m \in RetryMethods : ApiRetry(m)
  \/ \E m \in RetryMethods : ApiSlotGranted(m)
  \/ RetryTimerDue

(***************************************************************************)
(* getTransactionDetails (solana-api.ts 586-1269)                          *)
(*                                                                         *)
(* A protocol name is the sequence of its words, so that String.includes   *)
(* of a word is membership; an amount is an integer number of 10^-9 units  *)
(* (lamports for SOL); a description is its template and its arguments.    *)
(***************************************************************************)

\* Object.entries(DEFI_PROGRAMS), in declaration order
DEFI_PROGRAMS == <<
  [name |-> <<"Jupiter">>, id |-> "JUP6LkbZbjS1jKKwapdHNy74zcZ3tLUZoi5QNyVTaV4"],
  [name |-> <<"Jupiter", "DCA">>, id |-> "DCA26V4t7vX5b5w3s6fZ5s5s5s5s5s5s5s5s5s5s5s"],
  [name |-> <<"Raydium">>, id |-> "675kPX9MHTjS2zt1qfr1NYHuzeLXfQM9H24wFSUt1Mp8"],
  [name |-> <<"Raydium", "Liquidity">>, id |-> "27haf8L6oxUeXrHrgEgsexjSY5hbVUWEmvv9Nyxg8vQv"],
  [name |-> <<"Raydium", "CLMM">>, id |-> "CAMMCzo5YL8w4VFF8KVHrK22GGUsp5VTaW7grrKgrWqK"],
  [name |-> <<"Raydium", "CPMM">>, id |-> "CPMMoo8L3F4NbTegBCKVNunggL7H1ZpdTHKxQB5qKP1C"],
  [name |-> <<"Raydium", "Stable", "Swap">>, id |-> "5quBtoiQqxF9Jv6KYKctB59NT3gtJD2Y65kdnB1Uev3h"],
  [name |-> <<"Raydium", "Staking">>, id |-> "EhhTKczWMGQt46ynNeRX1WfeagwwJd7ufHvCDjRxjo5Q"],
  [name |-> <<"Raydium", "Farm">>, id |-> "9KEPoZmtHUrBbhWN1v1KWLMkkvwY6WLtAVUCPRtRjP4z"],
  [name |-> <<"Orca">>, id |-> "9W959DqEETiGZocYWCQPaJ6sBmUzgfxXfqGeTEdp3aQP"],
  [name |-> <<"Orca", "V2">>, id |-> "9W959DqEETiGZocYWCQPaJ6sBmUzgfxXfqGeTEdp3aQP"],
  [name |-> <<"Orca", "Whirlpool">>, id |-> "whirLbMiicVdio4qvUfM5KAg6Ct8VwpYzGff3uctyCc"],
  [name |-> <<"Meteora">>, id |-> "LBUZKhRxPF3XUpBCjp4YzTKgLccjZhTSDM9YuVaPwxo"],
  [name |-> <<"Meteora", "DLMM">>, id |-> "LBUZKhRxPF3XUpBCjp4YzTKgLccjZhTSDM9YuVaPwxo"],
  [name |-> <<"Meteora", "DAMM", "v1">>, id |-> "Eo7WjKq67rjJQSZxS6z3YkapzY3eMj6Xy8X5EQVn5UaB"],
  [name |-> <<"Meteora", "DAMM", "v2">>, id |-> "cpamdpZCGKUy5JxQXB4dcpGPiikHawvSWAd6mEn1sGG"],
  [name |-> <<"Meteora", "DBC">>, id |-> "dbcij3LWUppWqq96dh6gJWwBifmcGfLSB5D4DuSMaqN"],
  [name |-> <<"Meteora", "Dynamic", "Fee", "Sharing">>, id |-> "dfsdo2UqvwfN8DuUVrMRNfQe11VaiNoKcMqLHVvDPzh"],
  [name |-> <<"Meteora", "Stake2Earn">>, id |-> "FEESngU3neckdwib9X3KWqdL7Mjmqk9XNp3uh5JbP4KP"],
  [name |-> <<"Kamino">>, id |-> "KLend2g3cP87fffoy8q1mQqGKjrxjC8boSyAYavgmjD"],
  [name |-> <<"Kamino", "Lending">>, id |-> "KLend2g3cPKVUE8nKM6gD5DkV1F2eQWZ5hCE7DcW3jz"],
  [name |-> <<"Kamino", "Liquidity">>, id |-> "KLiMg9zHL4V9cZJj2b75VZ5tEgFgquZVd2oqq6oy8K"],
  [name |-> <<"Solend">>, id |-> "So1endDq2YkqhipRh3WViPa8hdiSpxWy6z3Z6tMCpA"],
  [name |-> <<"Marginfi">>, id |-> "Marginfi97Zwi4z8cA5DVyMFGFqaX1zRUJhBqjDEKQtBw"],
  [name |-> <<"Drift">>, id |-> "dRiftyHA39MWEi3m9aunc5MzRF1J8BsW5BF2kyA4UMj"],
  [name |-> <<"Wormhole">>, id |-> "3u8hJUVTA4jH1wYAyUur7FFZVQ8H635K3tSHHF4ssjQ"],
  [name |-> <<"Tensor">>, id |-> "TSWAPaqzMSnyPbhkKUPbAVgJcRKXWg6F4b1sYg3yQz"],
  [name |-> <<"Magic", "Eden">>, id |-> "M2mx93ekt1fmXSVkTrUL9xVFHjMEaH3d488HYWT7yf25"],
  [name |-> <<"Marinade">>, id |-> "MarBmsSgKXdrN1egZf5sqe1TMai9K1rChYndxJ6mNpX"],
  [name |-> <<"Serum", "DEX">>, id |-> "9xQeWvG816bUx9EPjHmaT23yvVM2ZWbrrpZb9PusVFin"],
  [name |-> <<"Pyth", "Oracle">>, id |-> "FsJ3A3u2vn5cTVofAjvy6y5kwABJAqYWpe4975bi2epH"],
  [name |-> <<"Switchboard">>, id |-> "SBondMDrcV3K4kxZR1HNVT7osZxAHVHgYXL5Ze1oMUv"],
  [name |-> <<"Bonk", "Rewards">>, id |-> "DezXAZ8z7PnrnRJjz3wXBoRgixCa6xjnB7YaB1pPB263"],
  [name |-> <<"Jito", "Staking">>, id |-> "J1to3PQfXidUUhprQWgdKkQAMWPJAEqSJ7amkBDE9qhF"],
  [name |-> <<"Phoenix">>, id |-> "PhoeNiXZ8ByJGLkxNfZRnkUfjvmuYqLR89jjFHGqdXY"],
  [name |-> <<"OpenBook">>, id |-> "srmqPvymJeFKQ4zGQed1GFppgkRHL9eaELiyT45vC02"]
>>

\* name.includes(word), for the words the code asks about
Includes(name, word) == \E i \in DOMAIN name : name[i] = word

\* name.includes("Bonk Rewards")
IncludesPhrase(name, phrase) ==
  \E i \in 0..(Len(name) - Len(phrase)) : SubSeq(name, i + 1, i + Len(phrase)) = phrase

\* accountKeys.some(key => key === programId)
ProgramInvolved(accountKeys, programId) == \E j \in DOMAIN accountKeys : accountKeys[j] = programId

\* a detection that walks the account keys and takes the first that is a program
RECURSIVE DetectByKeyOrder(_, _)
DetectByKeyOrder(accountKeys, j) ==
  IF j > Len(accountKeys) THEN <<>>
  ELSE IF \E i \in DOMAIN DEFI_PROGRAMS : DEFI_PROGRAMS[i].id = accountKeys[j]
       THEN DEFI_PROGRAMS[CHOOSE i \in DOMAIN DEFI_PROGRAMS :
                            /\ DEFI_PROGRAMS[i].id = accountKeys[j]
                            /\ \A k \in 1..(i - 1) : DEFI_PROGRAMS[k].id # accountKeys[j]].name
       ELSE DetectByKeyOrder(accountKeys, j + 1)

\* lines 717-728: the loop over the table from entry i on, with its break
RECURSIVE DetectFrom(_, _)
DetectFrom(accountKeys, i) ==
  IF i > Len(DEFI_PROGRAMS) THEN <<>>
  ELSE IF ProgramInvolved(accountKeys, DEFI_PROGRAMS[i].id) THEN DEFI_PROGRAMS[i].name
       ELSE DetectFrom(accountKeys, i + 1)

\* detectedProtocol: <<>> is the empty string
DetectProtocol(accountKeys) == DetectFrom(accountKeys, 1)

\* Math.pow(10, n)
RECURSIVE Pow10(_)
Pow10(n) == IF n = 0 THEN 1 ELSE 10 * Pow10(n - 1)

Abs(x) == IF x < 0 THEN -x ELSE x
Max(a, b) == IF a > b THEN a ELSE b

\* Number(raw) / Math.pow(10, decimals), in 10^-9 units (decimals <= 9)
Nano(raw, decimals) == raw * Pow10(9 - decimals)

\* the symbol getTokenSymbolFast resolves for a mint: COMMON_TOKENS (275-281),
\* else the DAS symbol, else the shortened mint of line 262
SymbolOf(mint) ==
  CASE mint = SOL_MINT  -> "SOL"
    [] mint = USDC_MINT -> "USDC"
    [] mint = LP_MINT   -> "RAY-LP"
    [] OTHER            -> "mint...mint"

\* symbol.includes("LP")
SymbolHasLP(symbol) == symbol = "RAY-LP"

\* changes.sort((a, b) => Math.abs(b.amount) - Math.abs(a.amount)): stable
RECURSIVE InsertByAbs(_, _)
InsertByAbs(sorted, c) ==
  IF sorted = <<>> THEN <<c>>
  ELSE IF Abs(c.amount) > Abs(Head(sorted).amount) THEN <<c>> \o sorted
       ELSE <<Head(sorted)>> \o InsertByAbs(Tail(sorted), c)

RECURSIVE SortByAbs(_)
SortByAbs(changes) ==
  IF changes = <<>> THEN <<>>
  ELSE InsertByAbs(SortByAbs(SubSeq(changes, 1, Len(changes) - 1)), changes[Len(changes)])

\* balances.find(p => p.mint === mint && p.owner === walletAddress)
FindBalance(balances, mint, walletAddress) ==
  SelectSeq(balances, LAMBDA p : p.mint = mint /\ p.owner = walletAddress)

\* lines 1185-1199: the SOL change of account 0; a difference of exactly one
\* lamport is above or below the dust threshold as the float division rounds
SolChange(preSolBalances, postSolBalances, oneLamportCounts) ==
  IF preSolBalances = <<>> \/ postSolBalances = <<>> THEN <<>>
  ELSE LET solDiff == postSolBalances[1] - preSolBalances[1]
       IN IF Abs(solDiff) > 1 \/ (Abs(solDiff) = 1 /\ oneLamportCounts)
          THEN <<[mint |-> SOL_MINT, amount |-> solDiff, symbol |-> "SOL"]>>
          ELSE <<>>

\* lines 1205-1239: one entry of preTokenBalances
PreTokenChange(pre, postTokenBalances, walletAddress) ==
  IF pre.owner # walletAddress THEN <<>>
  ELSE LET post == FindBalance(postTokenBalances, pre.mint, walletAddress)
           preAmount == Nano(pre.amount, pre.decimals)
       IN IF post # <<>>
          THEN LET diff == Nano(post[1].amount, post[1].decimals) - preAmount
               IN IF Abs(diff) > 1000
                  THEN <<[mint |-> pre.mint, amount |-> diff, symbol |-> SymbolOf(pre.mint)]>>
                  ELSE <<>>
          ELSE IF preAmount > 1000
               THEN <<[mint |-> pre.mint, amount |-> -preAmount, symbol |-> SymbolOf(pre.mint)]>>
               ELSE <<>>

\* lines 1242-1262: one entry of postTokenBalances
PostTokenChange(post, preTokenBalances, walletAddress) ==
  IF post.owner # walletAddress THEN <<>>
  ELSE IF FindBalance(preTokenBalances, post.mint, walletAddress) # <<>> THEN <<>>
  ELSE LET postAmount == Nano(post.amount, post.decimals)
       IN IF postAmount > 1000
          THEN <<[mint |-> post.mint, amount |-> postAmount, symbol |-> SymbolOf(post.mint)]>>
          ELSE <<>>

RECURSIVE PreTokenChanges(_, _, _, _)
PreTokenChanges(i, preTokenBalances, postTokenBalances, walletAddress) ==
  IF i > Len(preTokenBalances) THEN <<>>
  ELSE PreTokenChange(preTokenBalances[i], postTokenBalances, walletAddress)
         \o PreTokenChanges(i + 1, preTokenBalances, postTokenBalances, walletAddress)

RECURSIVE PostTokenChanges(_, _, _, _)
PostTokenChanges(i, preTokenBalances, postTokenBalances, walletAddress) ==
  IF i > Len(postTokenBalances) THEN <<>>
  ELSE PostTokenChange(postTokenBalances[i], preTokenBalances, walletAddress)
         \o PostTokenChanges(i + 1, preTokenBalances, postTokenBalances, walletAddress)

\* calculateEnhancedBalanceChanges (1176-1269)
CalculateEnhancedBalanceChanges(d, walletAddress) ==
  SortByAbs(SolChange(d.preBalances, d.postBalances, d.oneLamportCounts)
            \o PreTokenChanges(1, d.preTokenBalances, d.postTokenBalances, walletAddress)
            \o PostTokenChanges(1, d.preTokenBalances, d.postTokenBalances, walletAddress))

Received(changes) == SelectSeq(changes, LAMBDA c : c.amount > 0)
Sent(changes)     == SelectSeq(changes, LAMBDA c : c.amount < 0)

\* a description: the template literal and the values put into it
\* a template literal and the values of its ${...}; <arrow> stands for the
\* arrow character of lines 769, 816 and 837, which is not the pair ->
Text(template, args) == [template |-> template, args |-> args]
EmptyText == Text("", <<>>)

\* lines 687-698: the locals of getTransactionDetails before classification
InitialLabel ==
  [type |-> "unknown", detailedType |-> "Unknown", amount |-> 0, token |-> "SOL",
   description |-> EmptyText, isSwap |-> FALSE, protocol |-> <<>>,
   fromToken |-> "", toToken |-> "", fromAmount |-> 0, toAmount |-> 0,
   protocolHandled |-> FALSE, threw |-> FALSE]

\* amount.toFixed(digits): the amount rounded to that many decimals
ToFixed(amount, digits) ==
  LET unit == Pow10(9 - digits)
  IN ((amount + (unit \div 2)) \div unit) * unit

\* lines 744-759: the token transfers among the instructions from index i on
RECURSIVE TokenTransfers(_, _, _)
TokenTransfers(instructions, i, walletAddress) ==
  IF i > Len(instructions) THEN <<>>
  ELSE LET instr == instructions[i]
       IN (IF /\ instr.ptype \in {"transfer", "transferChecked"}
              /\ instr.amount >= 0 /\ instr.mint # ""
           THEN <<[symbol |-> SymbolOf(instr.mint),
                   amount |-> IF instr.source = walletAddress
                              THEN -Nano(instr.amount, instr.decimals)
                              ELSE Nano(instr.amount, instr.decimals),
                   mint |-> instr.mint]>>
           ELSE <<>>) \o TokenTransfers(instructions, i + 1, walletAddress)

\* instr.parsed.info is read of an instruction that has none: a TypeError
ReadsMissingInfo(instructions, types) ==
  \E i \in DOMAIN instructions : instructions[i].ptype \in types /\ ~instructions[i].hasInfo

\* "Raydium" / "Orca" / otherwise "Meteora" (819-820, 858-859, 867-868)
DexFamily(detected) ==
  IF Includes(detected, "Raydium") THEN <<"Raydium">>
  ELSE IF Includes(detected, "Orca") THEN <<"Orca">> ELSE <<"Meteora">>

\* lines 846-848
SwapFamily(detected) ==
  IF Includes(detected, "Raydium") THEN <<"Raydium">>
  ELSE IF Includes(detected, "Orca") THEN <<"Orca">>
  ELSE IF Includes(detected, "Meteora") THEN <<"Meteora">> ELSE <<"Serum">>

\* lines 825-835
ProtocolPrefix(detected) ==
  CASE detected = <<"Raydium">> -> <<"Raydium", "AMM">>
    [] detected = <<"Raydium", "Stable", "Swap">> -> <<"Raydium", "Stable">>
    [] detected = <<"Orca">> -> <<"Orca", "V2">>
    [] detected = <<"Meteora">> -> <<"Meteora", "DLMM">>
    [] OTHER -> detected

\* lines 905-906, 919-920
LendingFamily(detected) ==
  IF Includes(detected, "Kamino") THEN <<"Kamino">>
  ELSE IF Includes(detected, "Solend") THEN <<"Solend">> ELSE <<"Marginfi">>

\* lines 1007-1008, 1015-1016
StakingFamily(detected) ==
  IF Includes(detected, "Marinade") THEN <<"Marinade">>
  ELSE IF Includes(detected, "Bonk") THEN <<"Bonk", "Rewards">> ELSE <<"Jito">>

\* lines 765-781: a swap is read off the first sent and first received transfer
JupiterSwap(st, sentToken, receivedToken, detected) ==
  [st EXCEPT
    !.description = Text("SWAP: {} {} <arrow> {} {}; {}",
                         <<ToFixed(Abs(sentToken.amount), 6), sentToken.symbol,
                           ToFixed(receivedToken.amount, 6), receivedToken.symbol, detected>>),
    !.isSwap = TRUE, !.type = "Swap", !.detailedType = "Token Swap",
    !.fromToken = sentToken.symbol, !.toToken = receivedToken.symbol,
    !.fromAmount = Abs(sentToken.amount), !.toAmount = receivedToken.amount,
    !.amount = Max(Abs(sentToken.amount), receivedToken.amount),
    !.protocol = detected, !.token = sentToken.symbol, !.protocolHandled = TRUE]

\* lines 761-782
JupiterTransfers(st, tokenTransfers, sent, received, detected) ==
  IF Len(tokenTransfers) >= 2 /\ sent # <<>> /\ received # <<>>
  THEN JupiterSwap(st, sent[1], received[1], detected)
  ELSE st

\* lines 740-783: DEX aggregators
JupiterBlock(st, d, detected, walletAddress) ==
  IF detected \notin {<<"Jupiter">>, <<"Jupiter", "DCA">>} THEN st
  ELSE IF ReadsMissingInfo(d.instructions, {"transfer", "transferChecked"})
       THEN [st EXCEPT !.threw = TRUE]
  ELSE JupiterTransfers(st, TokenTransfers(d.instructions, 1, walletAddress),
                        Sent(TokenTransfers(d.instructions, 1, walletAddress)),
                        Received(TokenTransfers(d.instructions, 1, walletAddress)), detected)

\* lines 808-814
IsLiquidity(detected, sentToken, receivedToken) ==
  \/ Includes(detected, "Liquidity") \/ Includes(detected, "CLMM") \/ Includes(detected, "DLMM")
  \/ Includes(detected, "Whirlpool") \/ Includes(detected, "DAMM")
  \/ SymbolHasLP(sentToken.symbol) \/ SymbolHasLP(receivedToken.symbol)

\* lines 804-851: a token went out and a token came in
DexBothWays(st, detected, sentToken, receivedToken) ==
  IF IsLiquidity(detected, sentToken, receivedToken)
  THEN [st EXCEPT
         !.description = Text("Liquidity: {} {} <arrow> {} {}; {}",
                              <<ToFixed(Abs(sentToken.amount), 6), sentToken.symbol,
                                ToFixed(receivedToken.amount, 6), receivedToken.symbol, detected>>),
         !.type = "Liquidity", !.detailedType = "Liquidity Provision",
         !.protocol = DexFamily(detected), !.token = sentToken.symbol,
         !.amount = Abs(sentToken.amount), !.protocolHandled = TRUE]
  ELSE [st EXCEPT
         !.description = Text("SWAP: {} {} <arrow> {} {}; {}",
                              <<ToFixed(Abs(sentToken.amount), 6), sentToken.symbol,
                                ToFixed(receivedToken.amount, 6), receivedToken.symbol,
                                ProtocolPrefix(detected)>>),
         !.isSwap = TRUE, !.type = "Swap", !.detailedType = "Token Swap",
         !.fromToken = sentToken.symbol, !.toToken = receivedToken.symbol,
         !.fromAmount = Abs(sentToken.amount), !.toAmount = receivedToken.amount,
         !.amount = Max(Abs(sentToken.amount), receivedToken.amount),
         !.protocol = SwapFamily(detected), !.token = sentToken.symbol,
         !.protocolHandled = TRUE]

\* lines 852-860: tokens came in only
DexWithdrawal(st, detected, receivedToken) ==
  [st EXCEPT
    !.description = Text("Liquidity Withdrawal: {} {}; {}",
                         <<ToFixed(receivedToken.amount, 6), receivedToken.symbol, detected>>),
    !.type = "Unstake", !.detailedType = "Liquidity Withdrawal",
    !.protocol = DexFamily(detected), !.protocolHandled = TRUE]

\* lines 861-871: tokens went out only
DexProvision(st, detected, sentToken) ==
  [st EXCEPT
    !.description = Text("Liquidity Provision: {} {}; {}",
                         <<ToFixed(Abs(sentToken.amount), 6), sentToken.symbol, detected>>),
    !.type = "Stake", !.detailedType = "Liquidity Provision",
    !.protocol = DexFamily(detected), !.token = sentToken.symbol,
    !.amount = Abs(sentToken.amount), !.protocolHandled = TRUE]

\* lines 800-872
DexChanges(st, detected, sent, received) ==
  IF received # <<>> /\ sent # <<>> THEN DexBothWays(st, detected, sent[1], received[1])
  ELSE IF received # <<>> THEN DexWithdrawal(st, detected, received[1])
  ELSE IF sent # <<>> THEN DexProvision(st, detected, sent[1])
  ELSE st

\* lines 785-874: DEX protocols
DexBlock(st, d, detected, walletAddress) ==
  IF st.protocolHandled \/ st.threw THEN st
  ELSE IF ~(\/ Includes(detected, "Raydium") \/ Includes(detected, "Orca")
            \/ Includes(detected, "Meteora") \/ detected = <<"Serum", "DEX">>) THEN st
  ELSE DexChanges(st, detected, Sent(CalculateEnhancedBalanceChanges(d, walletAddress)),
                  Received(CalculateEnhancedBalanceChanges(d, walletAddress)))

\* lines 894-907: tokens came in from a lending protocol
LendingReceived(st, detected, receivedToken) ==
  IF Includes(detected, "Lending")
  THEN [st EXCEPT
         !.description = Text("{} Borrow: {} {}",
                              <<detected, ToFixed(receivedToken.amount, 6), receivedToken.symbol>>),
         !.type = "Borrow", !.detailedType = "Loan Borrow",
         !.protocol = LendingFamily(detected), !.protocolHandled = TRUE]
  ELSE [st EXCEPT
         !.description = Text("{} Deposit Return: {} {}",
                              <<detected, ToFixed(receivedToken.amount, 6), receivedToken.symbol>>),
         !.type = "Receive", !.detailedType = "Deposit Return",
         !.protocol = LendingFamily(detected), !.protocolHandled = TRUE]

\* lines 908-923: tokens went out to a lending protocol
LendingSent(st, detected, sentToken) ==
  IF Includes(detected, "Lending")
  THEN [st EXCEPT
         !.description = Text("{} Repay: {} {}",
                              <<detected, ToFixed(Abs(sentToken.amount), 6), sentToken.symbol>>),
         !.type = "Repay", !.detailedType = "Loan Repayment",
         !.protocol = LendingFamily(detected), !.token = sentToken.symbol,
         !.amount = Abs(sentToken.amount), !.protocolHandled = TRUE]
  ELSE [st EXCEPT
         !.description = Text("{} Deposit: {} {}",
                              <<detected, ToFixed(Abs(sentToken.amount), 6), sentToken.symbol>>),
         !.type = "Send", !.detailedType = "Lending Deposit",
         !.protocol = LendingFamily(detected), !.token = sentToken.symbol,
         !.amount = Abs(sentToken.amount), !.protocolHandled = TRUE]

\* lines 890-924
LendingChanges(st, detected, sent, received) ==
  IF received # <<>> THEN LendingReceived(st, detected, received[1])
  ELSE IF sent # <<>> THEN LendingSent(st, detected, sent[1])
  ELSE st

\* lines 876-926: lending protocols
LendingBlock(st, d, detected, walletAddress) ==
  IF st.protocolHandled \/ st.threw THEN st
  ELSE IF ~(\/ Includes(detected, "Kamino") \/ Includes(detected, "Solend")
            \/ Includes(detected, "Marginfi")) THEN st
  ELSE LendingChanges(st, detected, Sent(CalculateEnhancedBalanceChanges(d, walletAddress)),
                      Received(CalculateEnhancedBalanceChanges(d, walletAddress)))

\* lines 928-935: perpetuals
DriftBlock(st, detected) ==
  IF st.protocolHandled \/ st.threw \/ detected # <<"Drift">> THEN st
  ELSE [st EXCEPT !.description = Text("Drift Trading: Position Update", <<>>),
                  !.type = "Trade", !.detailedType = "Perpetual Trading",
                  !.protocol = <<"Drift">>, !.protocolHandled = TRUE]

\* lines 951-957
BridgeReceive(st, receivedToken) ==
  [st EXCEPT
    !.description = Text("Bridge Receive: {} {}; Wormhole",
                         <<ToFixed(receivedToken.amount, 6), receivedToken.symbol>>),
    !.type = "Receive", !.detailedType = "Bridge Receive",
    !.protocol = <<"Wormhole">>, !.protocolHandled = TRUE]

\* lines 958-966
BridgeSend(st, sentToken) ==
  [st EXCEPT
    !.description = Text("Bridge Send: {} {}; Wormhole",
                         <<ToFixed(Abs(sentToken.amount), 6), sentToken.symbol>>),
    !.type = "Send", !.detailedType = "Bridge Send",
    !.protocol = <<"Wormhole">>, !.token = sentToken.symbol,
    !.amount = Abs(sentToken.amount), !.protocolHandled = TRUE]

\* lines 947-967
WormholeChanges(st, sent, received) ==
  IF received # <<>> THEN BridgeReceive(st, received[1])
  ELSE IF sent # <<>> THEN BridgeSend(st, sent[1])
  ELSE st

\* lines 937-969: bridges
WormholeBlock(st, d, detected, walletAddress) ==
  IF st.protocolHandled \/ st.threw \/ detected # <<"Wormhole">> THEN st
  ELSE WormholeChanges(st, Sent(CalculateEnhancedBalanceChanges(d, walletAddress)),
                       Received(CalculateEnhancedBalanceChanges(d, walletAddress)))

\* lines 971-981: NFT marketplaces
NftBlock(st, detected) ==
  IF st.protocolHandled \/ st.threw \/ detected \notin {<<"Tensor">>, <<"Magic", "Eden">>} THEN st
  ELSE [st EXCEPT !.description = Text("NFT {}: Transaction", <<detected>>),
                  !.type = "NFT", !.detailedType = "NFT Transaction",
                  !.protocol = detected, !.protocolHandled = TRUE]

\* lines 1002-1009
Unstaking(st, detected, receivedToken) ==
  [st EXCEPT
    !.description = Text("Unstaking: {} {}; {}",
                         <<ToFixed(receivedToken.amount, 6), receivedToken.symbol, detected>>),
    !.type = "Unstake", !.detailedType = "Staking Withdrawal",
    !.protocol = StakingFamily(detected), !.protocolHandled = TRUE]

\* lines 1010-1019
Staking(st, detected, sentToken) ==
  [st EXCEPT
    !.description = Text("Staking: {} {}; {}",
                         <<ToFixed(Abs(sentToken.amount), 6), sentToken.symbol, detected>>),
    !.type = "Stake", !.detailedType = "Staking Deposit",
    !.protocol = StakingFamily(detected), !.token = sentToken.symbol,
    !.amount = Abs(sentToken.amount), !.protocolHandled = TRUE]

\* lines 998-1020
StakingChanges(st, detected, sent, received) ==
  IF received # <<>> THEN Unstaking(st, detected, received[1])
  ELSE IF sent # <<>> THEN Staking(st, detected, sent[1])
  ELSE st

\* lines 983-1022: staking protocols
StakingBlock(st, d, detected, walletAddress) ==
  IF st.protocolHandled \/ st.threw THEN st
  ELSE IF ~(\/ Includes(detected, "Staking") \/ Includes(detected, "Marinade")
            \/ IncludesPhrase(detected, <<"Bonk", "Rewards">>) \/ Includes(detected, "Jito")) THEN st
  ELSE StakingChanges(st, detected, Sent(CalculateEnhancedBalanceChanges(d, walletAddress)),
                      Received(CalculateEnhancedBalanceChanges(d, walletAddress)))

\* lines 1024-1034: oracles
OracleBlock(st, detected) ==
  IF st.protocolHandled \/ st.threw \/ detected \notin {<<"Pyth", "Oracle">>, <<"Switchboard">>} THEN st
  ELSE [st EXCEPT !.description = Text("{}: Price Update", <<detected>>),
                  !.type = "Oracle", !.detailedType = "Price Update",
                  !.protocol = IF Includes(detected, "Pyth") THEN <<"Pyth">> ELSE <<"Switchboard">>,
                  !.protocolHandled = TRUE]

\* lines 1036-1046: other protocols
OtherBlock(st, detected) ==
  IF st.protocolHandled \/ st.threw \/ detected \notin {<<"Phoenix">>, <<"OpenBook">>} THEN st
  ELSE [st EXCEPT !.description = Text("{}: Trading", <<detected>>),
                  !.type = "Trade", !.detailedType = "DEX Trading",
                  !.protocol = detected, !.protocolHandled = TRUE]

\* lines 1048-1054: a detected protocol nothing above handled
ProtocolFallback(st, detected) ==
  IF st.protocolHandled \/ st.threw THEN st
  ELSE [st EXCEPT !.description = Text("{}: Interaction", <<detected>>),
                  !.type = "Unknown", !.detailedType = "Protocol Interaction",
                  !.protocol = detected]

\* lines 785-1046: the blocks after the aggregators, in the order of the source
LaterBlocks(st, d, detected, walletAddress) ==
  LET dex      == {DexBlock(s, d, detected, walletAddress) : s \in {st}}
      lending  == {LendingBlock(s, d, detected, walletAddress) : s \in dex}
      drift    == {DriftBlock(s, detected) : s \in lending}
      wormhole == {WormholeBlock(s, d, detected, walletAddress) : s \in drift}
      nft      == {NftBlock(s, detected) : s \in wormhole}
      staking  == {StakingBlock(s, d, detected, walletAddress) : s \in nft}
      oracle   == {OracleBlock(s, detected) : s \in staking}
      other    == {OtherBlock(s, detected) : s \in oracle}
  IN CHOOSE s \in other : TRUE

\* lines 735-1055: the protocol-specific classification, block after block
ProtocolBlocks(st, d, detected, walletAddress) ==
  IF detected = <<>> THEN st
  ELSE LET jupiter  == {JupiterBlock([st EXCEPT !.protocol = detected], d, detected, walletAddress)}
           later    == {LaterBlocks(s, d, detected, walletAddress) : s \in jupiter}
           fallback == {ProtocolFallback(s, detected) : s \in later}
       IN CHOOSE s \in fallback : TRUE

\* lines 1058-1101: the first transfer instruction that names lamports or a token
RECURSIVE TransferBlock(_, _, _, _)
TransferBlock(st, instructions, i, walletAddress) ==
  IF i > Len(instructions) THEN st
  ELSE LET instr == instructions[i]
           isSender == instr.source = walletAddress
       IN IF instr.ptype # "transfer" THEN TransferBlock(st, instructions, i + 1, walletAddress)
          ELSE IF ~instr.hasInfo THEN [st EXCEPT !.threw = TRUE]
          ELSE IF instr.lamports > 0
          THEN [st EXCEPT
                 !.type = IF isSender THEN "Send" ELSE "Receive",
                 !.detailedType = "SOL Transfer", !.amount = instr.lamports,
                 !.token = "SOL", !.protocol = <<"Solana">>,
                 !.fromToken = "SOL", !.toToken = "SOL",
                 !.fromAmount = IF isSender THEN instr.lamports ELSE 0,
                 !.toAmount = IF isSender THEN 0 ELSE instr.lamports,
                 !.description = Text("{} {} SOL", <<IF isSender THEN "Send" ELSE "Receive",
                                                     ToFixed(instr.lamports, 9)>>)]
          ELSE IF instr.amount >= 0 /\ instr.mint # ""
          THEN LET amount == Nano(instr.amount, instr.decimals)
                   tokenSymbol == SymbolOf(instr.mint)
               IN [st EXCEPT
                    !.type = IF isSender THEN "Send" ELSE "Receive",
                    !.detailedType = "Token Transfer", !.amount = amount,
                    !.token = tokenSymbol, !.protocol = <<"Token", "Transfer">>,
                    !.fromToken = tokenSymbol, !.toToken = tokenSymbol,
                    !.fromAmount = IF isSender THEN amount ELSE 0,
                    !.toAmount = IF isSender THEN 0 ELSE amount,
                    !.description = Text("{} {} {}", <<IF isSender THEN "Send" ELSE "Receive",
                                                       ToFixed(amount, 6), tokenSymbol>>)]
          ELSE TransferBlock(st, instructions, i + 1, walletAddress)

\* accountKeys.findIndex(key => key === walletAddress): 0 for none
FindIndex(accountKeys, walletAddress) ==
  IF \E j \in DOMAIN accountKeys : accountKeys[j] = walletAddress
  THEN CHOOSE j \in DOMAIN accountKeys :
         /\ accountKeys[j] = walletAddress
         /\ \A k \in 1..(j - 1) : accountKeys[k] # walletAddress
  ELSE 0

\* lines 1103-1127: the wallet's SOL balance change
SolBalanceBlock(st, d, walletAddress) ==
  IF st.type # "unknown" \/ st.threw \/ d.preBalances = <<>> \/ d.postBalances = <<>> THEN st
  ELSE LET walletIndex == FindIndex(d.accountKeys, walletAddress)
       IN IF walletIndex = 0 \/ walletIndex > Len(d.preBalances) \/ walletIndex > Len(d.postBalances)
          THEN st
          ELSE LET solDiff == d.postBalances[walletIndex] - d.preBalances[walletIndex]
                   isReceive == solDiff > 0
               IN IF Abs(solDiff) > 1 \/ (Abs(solDiff) = 1 /\ d.oneLamportCounts)
                  THEN [st EXCEPT
                         !.type = IF isReceive THEN "Receive" ELSE "Send",
                         !.detailedType = "SOL Balance Change", !.amount = Abs(solDiff),
                         !.token = "SOL", !.protocol = <<"Solana">>,
                         !.fromToken = "SOL", !.toToken = "SOL",
                         !.fromAmount = IF isReceive THEN 0 ELSE Abs(solDiff),
                         !.toAmount = IF isReceive THEN Abs(solDiff) ELSE 0,
                         !.description = Text("{} {} SOL", <<IF isReceive THEN "Receive" ELSE "Send",
                                                             ToFixed(Abs(solDiff), 9)>>)]
                  ELSE st

\* a fallback that forgets to replace the placeholder type
KeepPlaceholder(st) == st

\* lines 1129-1135: the final fallback
FinalFallback(st) ==
  IF st.type # "unknown" THEN st
  ELSE [st EXCEPT !.type = "Unknown", !.detailedType = "Unknown Transaction",
                  !.description = Text("Unknown transaction type", <<>>),
                  !.protocol = <<"Unknown">>]

NullTransaction == [isNull |-> TRUE]

\* lines 1058-1101 run only while nothing has classified the transaction
TransferStep(st, d, walletAddress) ==
  IF st.type = "unknown" /\ ~st.threw
  THEN TransferBlock(st, d.instructions, 1, walletAddress) ELSE st

\* lines 1137-1172: the returned transaction, or null from the catch
Returned(st, d, detectedProtocol) ==
  IF st.threw THEN NullTransaction
  ELSE [isNull |-> FALSE, type |-> st.type, token |-> st.token, amount |-> st.amount,
        fee |-> d.fee, isSwap |-> st.isSwap, protocol |-> st.protocol,
        fromToken |-> st.fromToken, toToken |-> st.toToken,
        fromAmount |-> st.fromAmount, toAmount |-> st.toAmount,
        detailedType |-> st.detailedType,
        description |-> IF st.description.template # "" THEN st.description
                        ELSE Text(st.type, <<>>),
        detectedProtocol |-> detectedProtocol]

\* lines 700-1172: the classification steps in the order of the source
Classify(d, walletAddress, detectedProtocol) ==
  LET protocol   == {ProtocolBlocks(InitialLabel, d, detectedProtocol, walletAddress)}
      transfer   == {TransferStep(s, d, walletAddress) : s \in protocol}
      solBalance == {SolBalanceBlock(s, d, walletAddress) : s \in transfer}
      fallback   == {FinalFallback(s) : s \in solBalance}
      returned   == {Returned(s, d, detectedProtocol) : s \in fallback}
  IN CHOOSE tx \in returned : TRUE

\* getTransactionDetails (678-1173) on the reply d of getTransaction
GetTransactionDetails(d) ==
  IF d.isNull THEN NullTransaction
  ELSE Classify(d, IF d.accountKeys = <<>> THEN Undefined ELSE d.accountKeys[1],
                DetectProtocol(d.accountKeys))

\* ---- the replies of getTransaction the classification is run on ----

ProgramIds == {DEFI_PROGRAMS[i].id : i \in DOMAIN DEFI_PROGRAMS}

IdOf(name) == DEFI_PROGRAMS[CHOOSE i \in DOMAIN DEFI_PROGRAMS : DEFI_PROGRAMS[i].name = name].id

\* programs that are put side by side, in both orders
PairedIds == {IdOf(<<"Jupiter">>), IdOf(<<"Raydium">>), IdOf(<<"Orca">>), IdOf(<<"Meteora">>),
              IdOf(<<"Kamino", "Lending">>), IdOf(<<"Drift">>)}

TxAccountKeys ==
  {<<>>, <<WalletKey>>, <<WalletKey, OtherKey>>}
    \cup {<<WalletKey, p>> : p \in ProgramIds}
    \cup {<<WalletKey, p, q>> : p \in PairedIds, q \in PairedIds}
    \cup {<<p, WalletKey>> : p \in PairedIds}

Instr(ptype, hasInfo, lamports, amount, mint, source, decimals) ==
  [ptype |-> ptype, hasInfo |-> hasInfo, lamports |-> lamports, amount |-> amount,
   mint |-> mint, source |-> source, decimals |-> decimals]

Unparsed         == Instr("none", FALSE, 0, -1, "", Undefined, 0)
SolFrom(source)  == Instr("transfer", TRUE, 1200000000, -1, "", source, 0)
SplFrom(source, mint, amount) == Instr("transfer", TRUE, 0, amount, mint, source, 6)
CheckedFrom(source, mint, amount) == Instr("transferChecked", TRUE, 0, amount, mint, source, 6)
BareTransfer     == Instr("transfer", TRUE, 0, -1, "", WalletKey, 0)
NoInfoTransfer   == Instr("transfer", FALSE, 0, -1, "", Undefined, 0)

TxInstructions ==
  {<<>>, <<Unparsed>>, <<SolFrom(WalletKey)>>, <<SolFrom(OtherKey)>>,
   <<SplFrom(WalletKey, USDC_MINT, 1500000)>>, <<SplFrom(OtherKey, LP_MINT, 40)>>,
   <<SplFrom(WalletKey, USDC_MINT, 1500000), SplFrom(OtherKey, LP_MINT, 700000)>>,
   <<CheckedFrom(WalletKey, USDC_MINT, 7), CheckedFrom(OtherKey, SOL_MINT, 3)>>,
   <<BareTransfer>>, <<NoInfoTransfer>>,
   <<Unparsed, SolFrom(WalletKey)>>, <<BareTransfer, SplFrom(OtherKey, USDC_MINT, 1)>>}

Bal(mint, owner, amount, decimals) == [mint |-> mint, owner |-> owner, amount |-> amount, decimals |-> decimals]

\* <<preTokenBalances, postTokenBalances>>
TxTokenBalances ==
  {<< <<>>, <<>> >>,
   << <<Bal(USDC_MINT, WalletKey, 500000, 6)>>, <<Bal(USDC_MINT, WalletKey, 200000, 6)>> >>,
   << <<Bal(USDC_MINT, WalletKey, 200000, 6)>>, <<Bal(USDC_MINT, WalletKey, 500000, 6)>> >>,
   << <<Bal(USDC_MINT, WalletKey, 500000, 6)>>, <<Bal(LP_MINT, WalletKey, 1, 0)>> >>,
   << <<Bal(USDC_MINT, OtherKey, 500000, 6)>>, <<Bal(USDC_MINT, OtherKey, 1, 6)>> >>,
   << <<Bal(USDC_MINT, WalletKey, 500000, 6)>>, <<Bal(USDC_MINT, WalletKey, 500001, 6)>> >>}

\* <<preBalances, postBalances, oneLamportCounts>>, in lamports
TxSolBalances ==
  {<< <<>>, <<>>, FALSE >>,
   << <<1000000000, 7>>, <<600000000, 7>>, FALSE >>,
   << <<600000000, 7>>, <<1000000000, 7>>, FALSE >>,
   << <<1000000000, 7>>, <<1000000000, 9>>, FALSE >>,
   << <<1000000000, 7>>, <<999999999, 7>>, FALSE >>,
   << <<1000000000, 7>>, <<999999999, 7>>, TRUE >>}

NullDetails ==
  [isNull |-> TRUE, accountKeys |-> <<>>, instructions |-> <<>>, preTokenBalances |-> <<>>,
   postTokenBalances |-> <<>>, preBalances |-> <<>>, postBalances |-> <<>>,
   oneLamportCounts |-> FALSE, fee |-> 0]

TxInputs ==
  {NullDetails} \cup
  {[isNull |-> FALSE, accountKeys |-> k, instructions |-> i,
    preTokenBalances |-> t[1], postTokenBalances |-> t[2],
    preBalances |-> b[1], postBalances |-> b[2], oneLamportCounts |-> b[3], fee |-> 5000] :
     k \in TxAccountKeys, i \in TxInstructions, t \in TxTokenBalances, b \in TxSolBalances}

TxIdle == txDetails = NullDetails /\ txResult = <<>>

\* one getTransaction reply arrives and is classified
ClassifyTransaction ==
  /\ txResult = <<>>
  /\ txResult' = <<GetTransactionDetails(txDetails)>>
  /\ UNCHANGED txDetails
  /\ TxFrame

TxNext == ClassifyTransaction

(***************************************************************************)
(* The two proxy handlers (unnamed/part_000) and the client that calls     *)
(* them (api-client.ts 22-130)                                             *)
(*                                                                         *)
(* A request is its HTTP verb and the fields the handlers read: whether it *)
(* has a body, body.endpoint or query.endpoint, body.method, and the path; *)
(* "" stands for a field that is absent.                                   *)
(***************************************************************************)

Handlers == {"helius", "supabase"}

Req(verb, hasBody, endpoint, method, path) ==
  [verb |-> verb, hasBody |-> hasBody, endpoint |-> endpoint, method |-> method, path |-> path]

HeliusRequests ==
  {Req("POST", TRUE, "", "getBalance", ""), Req("POST", TRUE, "das", "getAsset", ""),
   Req("POST", FALSE, "", "", ""), Req("GET", FALSE, "", "", ""),
   Req("GET", FALSE, "rpc", "", ""), Req("DELETE", FALSE, "", "", "")}

SupabaseRequests ==
  {Req("POST", TRUE, "", "POST", "users"), Req("POST", TRUE, "", "", "users"),
   Req("POST", FALSE, "", "", ""), Req("GET", FALSE, "", "", "users"),
   Req("GET", FALSE, "", "", ""), Req("PUT", TRUE, "", "PUT", "users")}

RequestsTo(h) == IF h = "helius" THEN HeliusRequests ELSE SupabaseRequests

\* what the upstream does with one fetch: a 2xx reply whose body is JSON
\* (with or without an error member) or text, another status, or no reply
Upstream(kind, status, json, error, body) ==
  [kind |-> kind, status |-> status, json |-> json, error |-> error, body |-> body]

UpstreamReplies ==
  {Upstream("ok", 200, TRUE, "", "rows"), Upstream("ok", 200, TRUE, "Invalid params", ""),
   Upstream("ok", 200, FALSE, "", "plain"), Upstream("notOk", 429, FALSE, "", "slow down"),
   Upstream("network", 0, FALSE, "", "")}

NoReply == Upstream("none", 0, FALSE, "", "")

\* res.status(status).json(...): an error object or the upstream's data
Resp(status, tag, text, detail, code) ==
  [status |-> status, tag |-> tag, text |-> text, detail |-> detail, code |-> code]

\* process.env: the keys that may be configured (part_000 2, 88-89)
ProxyEnvs == {[helius |-> TRUE, supabase |-> TRUE], [helius |-> FALSE, supabase |-> TRUE],
              [helius |-> TRUE, supabase |-> FALSE]}

IdleProxy == [pc |-> "idle", req |-> Req("", FALSE, "", "", ""), sent |-> 0]

ProxyInit == proxyCall = [h \in Handlers |-> IdleProxy] /\ proxyLog = <<>>

\* the fetch of apiClient.callHelius / callHeliusDas / callSupabase /
\* callSupabaseGet (api-client.ts 33, 58, 77, 111): no key in it
ClientRequest(h) ==
  [origin |-> "browser", to |-> IF h = "helius" THEN "/api/helius" ELSE "/api/supabase", keys |-> {}]

\* the response a handler gives before any fetch, <<>> when it goes on to fetch:
\* Helius 8-10, 13-14 (destructuring an absent body throws), 75-77;
\* Supabase 93-95, 98-99, 118 (method.toUpperCase() of an absent method throws),
\* 162-164, 214-216
ProxyEarly(h, req) ==
  IF h = "helius"
  THEN IF ~proxyEnv.helius THEN <<Resp(500, "error", "Helius API key not configured", "", 0)>>
       ELSE IF req.verb = "POST"
       THEN IF ~req.hasBody THEN <<Resp(500, "error", "TypeError", "", 0)>> ELSE <<>>
       ELSE IF req.verb = "GET" THEN <<>>
       ELSE <<Resp(405, "error", "Method not allowed", "", 0)>>
  ELSE IF ~proxyEnv.supabase THEN <<Resp(500, "error", "Supabase configuration not found", "", 0)>>
       ELSE IF req.verb = "POST"
       THEN IF ~req.hasBody \/ req.method = ""
            THEN <<Resp(500, "error", "TypeError", "", 0)>> ELSE <<>>
       ELSE IF req.verb = "GET"
       THEN IF req.path = ""
            THEN <<Resp(400, "error", "Path parameter is required", "", 0)>> ELSE <<>>
       ELSE <<Resp(405, "error", "Method not allowed", "", 0)>>

\* the one fetch of each branch: Helius 17, 34 (the DAS URL of line 4 has no
\* key), 53, 63-67 (the key is appended for DAS, the RPC URL of line 3 has it);
\* Supabase 105-109, 140 and 170-174, 193
ProxyUpstream(h, req) ==
  IF h = "supabase"
  THEN [origin |-> "server", to |-> "supabase", keys |-> {"SUPABASE_ANON_KEY"}]
  ELSE IF req.verb = "POST"
  THEN [origin |-> "server",
        to     |-> IF req.endpoint = "das" THEN "helius-das" ELSE "helius-rpc",
        keys   |-> IF req.endpoint = "das" THEN {} ELSE {"HELIUS_API_KEY"}]
  ELSE [origin |-> "server",
        to     |-> IF req.endpoint \in {"", "das"} THEN "helius-das" ELSE "helius-rpc",
        keys   |-> {"HELIUS_API_KEY"}]

\* a response that counts the requests served before
CountingRespond(h, req, reply) == Resp(200, "data", reply.body, "", Len(proxyLog))

\* what a handler answers once its fetch has settled: Helius 36-47, 69-74 and
\* the catch 79-84; Supabase 142-157, 198-213 and the catch 218-223
ProxyRespond(h, req, reply) ==
  IF reply.kind = "network" THEN Resp(500, "error", "fetch failed", "", 0)
  ELSE IF h = "helius"
  THEN IF reply.kind = "notOk" THEN Resp(500, "error", "Helius API error", "", reply.status)
       ELSE IF ~reply.json THEN Resp(500, "error", "SyntaxError", "", 0)
       ELSE IF req.verb = "POST" /\ reply.error # "" THEN Resp(400, "error", reply.error, "", 0)
       ELSE Resp(200, "data", reply.body, reply.error, 0)
  ELSE IF reply.kind = "notOk"
       THEN Resp(500, "error", "Supabase API error", reply.body, reply.status)
       ELSE Resp(200, IF reply.json THEN "data" ELSE "text", reply.body, reply.error, 0)

Served(h, req, reply, response, upstream) ==
  [handler |-> h, req |-> req, reply |-> reply, response |-> response, upstream |-> upstream]

InFlight == Cardinality({h \in Handlers : proxyCall[h].pc = "awaiting"})

\* handler(req, res) up to its return or its await of fetch
ProxyReceive(h, req) ==
  /\ proxyCall[h].pc = "idle"
  /\ Len(proxyLog) + InFlight < MaxHandled
  /\ IF ProxyEarly(h, req) # <<>>
     THEN /\ proxyLog' = Append(proxyLog, Served(h, req, NoReply, ProxyEarly(h, req)[1], 0))
          /\ netLog' = netLog \cup {ClientRequest(h)}
          /\ UNCHANGED proxyCall
     ELSE /\ proxyCall' = [proxyCall EXCEPT ![h] = [pc |-> "awaiting", req |-> req, sent |-> 1]]
          /\ netLog' = netLog \cup {ClientRequest(h), ProxyUpstream(h, req)}
          /\ UNCHANGED proxyLog
  /\ UNCHANGED proxyEnv
  /\ ProxyFrame

\* the handler's fetch settles and it responds
ProxyUpstreamSettles(h, reply) ==
  /\ proxyCall[h].pc = "awaiting"
  /\ proxyLog' = Append(proxyLog, Served(h, proxyCall[h].req, reply,
                                         ProxyRespond(h, proxyCall[h].req, reply),
                                         proxyCall[h].sent))
  /\ proxyCall' = [proxyCall EXCEPT ![h] = IdleProxy]
  /\ UNCHANGED <<proxyEnv, netLog>>
  /\ ProxyFrame

ProxyNext ==
  \/ \E h \in Handlers : \E req \in RequestsTo(h) : ProxyReceive(h, req)
  \/ \E h \in Handlers, reply \in UpstreamReplies : ProxyUpstreamSettles(h, reply)

(***************************************************************************)
(* Token pages: getTokenAccounts (441-502) and getAllTokenAccounts         *)
(* (505-584).  An amount is a fraction n / d.                              *)
(***************************************************************************)

\* an item of a getAssetsByOwner reply, by the members the code reads
Asset(id, hasTokenInfo, balance, decimals, price, hasContent) ==
  [id |-> id, hasTokenInfo |-> hasTokenInfo, balance |-> balance, decimals |-> decimals,
   price |-> price, hasContent |-> hasContent]

UsdcAsset   == Asset(USDC_MINT, TRUE, 5, 1, 2, TRUE)
LpAsset     == Asset(LP_MINT, TRUE, 30, 0, 0, TRUE)
NftAsset    == Asset("nft", FALSE, 0, 0, 0, TRUE)
BrokenAsset == Asset("bad", TRUE, 1, 0, 0, FALSE)

\* the TokenAccount pushed for an asset: lines 469-483 divide the balance by
\* 10^decimals, lines 533-547 (all = TRUE) take it as it is
TokenOf(asset, all) ==
  LET d == IF all THEN 1 ELSE Pow10(asset.decimals)
  IN [mint |-> asset.id, decimals |-> asset.decimals,
      uiAmount |-> [n |-> asset.balance, d |-> d],
      usdValue |-> [n |-> asset.balance * asset.price, d |-> d],
      pricePerToken |-> asset.price]

\* the for loop over response.items from item i on (460-485, 529-549); reading
\* content.metadata of an asset without content throws
RECURSIVE PushTokens(_, _, _, _)
PushTokens(items, i, tokens, all) ==
  IF i > Len(items) THEN [tokens |-> tokens, threw |-> FALSE]
  ELSE IF items[i].hasTokenInfo /\ items[i].balance > 0
  THEN IF ~items[i].hasContent THEN [tokens |-> tokens, threw |-> TRUE]
       ELSE PushTokens(items, i + 1, Append(tokens, TokenOf(items[i], all)), all)
  ELSE PushTokens(items, i + 1, tokens, all)

\* the comparator of lines 488-495 and 571-578 is positive: b goes before a
GoesBefore(b, a) ==
  IF a.usdValue.n * b.usdValue.d # b.usdValue.n * a.usdValue.d
  THEN b.usdValue.n * a.usdValue.d > a.usdValue.n * b.usdValue.d
  ELSE b.uiAmount.n * a.uiAmount.d > a.uiAmount.n * b.uiAmount.d

\* tokens.sort(...) with that comparator: stable, so equal tokens keep their order
SortTokens(tokens) ==
  LET Precedes(j, i) == \/ GoesBefore(tokens[j], tokens[i])
                        \/ ~GoesBefore(tokens[i], tokens[j]) /\ j < i
      Rank(i) == 1 + Cardinality({j \in DOMAIN tokens : j # i /\ Precedes(j, i)})
  IN [k \in DOMAIN tokens |-> tokens[CHOOSE i \in DOMAIN tokens : Rank(i) = k]]

\* what callDASApi("getAssetsByOwner") can return: a page, or null
Page(items, total) == [shape |-> "page", items |-> items, total |-> total]
NullResult == [shape |-> "null"]

FullPage(asset) == [i \in 1..TOKEN_PAGE_SIZE |-> asset]

Result(value) == [kind |-> "result", value |-> value]
Failure == [kind |-> "network", value |-> 0]

PageReplies ==
  {Result(Page(FullPage(UsdcAsset), 7)), Result(Page(<<LpAsset>> \o Tail(FullPage(BrokenAsset)), 7)),
   Result(Page(<<LpAsset>>, 1)), Result(Page(<<>>, 0)), Result(NullResult), Failure}

IdleTok == [pc |-> "idle", maxPages |-> 0, page |-> 1, hasMore |-> TRUE, allTokens |-> <<>>,
            total |-> 0, wakeAt |-> 0, requested |-> <<>>, pages |-> <<>>, result |-> <<>>]

\* getAllTokenAccounts(address, maxPages): lines 506-509
GetAllTokenAccounts(maxPages) ==
  /\ tokCall.pc = "idle"
  /\ tokCall' = [IdleTok EXCEPT !.pc = "loop", !.maxPages = maxPages]
  /\ UNCHANGED <<clock, apiVars>>
  /\ TokFrame

\* the loop condition holds: callDASApi of line 513 for the current page
TokPageRequest ==
  /\ tokCall.pc = "loop" /\ tokCall.hasMore /\ tokCall.page <= tokCall.maxPages
  /\ ApiCallStart("getAssetsByOwner")

\* a loop that goes on after every page that is not empty
MorePagesIfAny(items) == Len(items) > 0

\* line 555: response.items.length === TOKEN_PAGE_SIZE
MorePages(items) == Len(items) = TOKEN_PAGE_SIZE

\* what the body of the loop does with the outcome of callDASApi (524-567):
\* the locals after it, and what the page was
PageStep(t, call) ==
  LET response == call.result
      asked == [t EXCEPT !.requested = Append(@, t.page)]
      pushed == PushTokens(response.items, 1, t.allTokens, TRUE)
  IN IF call.pc = "thrown" \/ response.shape = "null"
     THEN [asked EXCEPT !.hasMore = FALSE,
                        !.pages = Append(@, [kind |-> "failed", items |-> <<>>])]
     ELSE IF Len(response.items) = 0
     THEN [asked EXCEPT !.hasMore = FALSE,
                        !.pages = Append(@, [kind |-> "empty", items |-> <<>>])]
     ELSE IF pushed.threw
     THEN [asked EXCEPT !.allTokens = pushed.tokens, !.hasMore = FALSE,
                        !.pages = Append(@, [kind |-> "failed", items |-> response.items])]
     ELSE [asked EXCEPT !.allTokens = pushed.tokens, !.total = response.total,
                        !.hasMore = MorePages(response.items),
                        !.page = @ + 1,
                        !.pages = Append(@, [kind  |-> IF Len(response.items) = TOKEN_PAGE_SIZE
                                                       THEN "full" ELSE "short",
                                             items |-> response.items])]

\* callDASApi has returned or thrown: the rest of the loop body, up to the
\* timer of line 562 when there are more pages
TokPageDone ==
  /\ tokCall.pc = "loop"
  /\ apiCall["getAssetsByOwner"].pc \in {"returned", "thrown"}
  /\ LET t == PageStep(tokCall, apiCall["getAssetsByOwner"])
     IN tokCall' = IF t.hasMore
                   THEN [t EXCEPT !.pc = "delay", !.wakeAt = clock + 200] ELSE t
  /\ apiCall' = [apiCall EXCEPT !["getAssetsByOwner"] = IdleCall]
  /\ apiHist' = [apiHist EXCEPT !["getAssetsByOwner"] = NoHist]
  /\ UNCHANGED clock
  /\ TokFrame

\* the timer of line 562 fires
TokDelayOver ==
  /\ tokCall.pc = "delay"
  /\ clock' = tokCall.wakeAt
  /\ tokCall' = [tokCall EXCEPT !.pc = "loop"]
  /\ UNCHANGED apiVars
  /\ TokFrame

\* the loop condition fails: sort and return (570-583)
TokReturn ==
  /\ tokCall.pc = "loop"
  /\ apiCall["getAssetsByOwner"].pc = "idle"
  /\ ~(tokCall.hasMore /\ tokCall.page <= tokCall.maxPages)
  /\ tokCall' = [tokCall EXCEPT !.pc = "returned",
                   !.result = <<[tokens |-> SortTokens(tokCall.allTokens), total |-> tokCall.total]>>]
  /\ UNCHANGED <<clock, apiVars>>
  /\ TokFrame

TokNext ==
  \/ \E maxPages \in 0..MaxPages : GetAllTokenAccounts(maxPages)
  \/ TokPageRequest
  \/ \E reply \in PageReplies : ApiFetchSettles("getAssetsByOwner", reply)
  \/ ApiRetry("getAssetsByOwner")
  \/ ApiSlotGranted("getAssetsByOwner")
  \/ RetryTimerDue
  \/ TokPageDone
  \/ TokDelayOver
  \/ TokReturn

(***************************************************************************)
(* handleWalletSubmit (unnamed/part_003 15-37) and fetchWalletData         *)
(* (1403-1444) with its four sub-fetches                                   *)
(***************************************************************************)

RECURSIVE Rep(_, _)
Rep(ch, n) == IF n = 0 THEN <<>> ELSE <<ch>> \o Rep(ch, n - 1)

\* [1-9A-HJ-NP-Za-km-z]
Base58 ==
  {"1", "2", "3", "4", "5", "6", "7", "8", "9",
   "A", "B", "C", "D", "E", "F", "G", "H", "J", "K", "L", "M", "N", "P", "Q", "R", "S", "T",
   "U", "V", "W", "X", "Y", "Z",
   "a", "b", "c", "d", "e", "f", "g", "h", "i", "j", "k", "m", "n", "o", "p", "q", "r", "s",
   "t", "u", "v", "w", "x", "y", "z"}

\* the addresses handed to fetchWalletData, as sequences of characters
Addresses ==
  {Rep("A", 32), Rep("z", 43) \o <<"9">>, Rep("1", 31), Rep("1", 45), <<>>,
   Rep("A", 31) \o <<"0">>, Rep("B", 20) \o <<"l">> \o Rep("B", 20), Rep("A", 32) \o <<"\n">>}

\* a test that forgets the length
CharsetOnly(address) == \A i \in DOMAIN address : address[i] \in Base58

\* line 1404: /^[1-9A-HJ-NP-Za-km-z]{32,44}$/.test(address)
ValidAddress(address) ==
  /\ Len(address) >= 32 /\ Len(address) <= 44
  /\ \A i \in DOMAIN address : address[i] \in Base58

IdleWallet ==
  [pc |-> "idle", address |-> <<>>, error |-> "", loading |-> FALSE, toast |-> "",
   price |-> [pc |-> "idle", value |-> 0, failed |-> FALSE], result |-> <<>>]

\* what the upstream can answer to each call of the sub-fetches
WalletReplies(m) ==
  CASE m = "getBalance" ->
         {Result([shape |-> "value", lamports |-> 2000000]), Result(NullResult), Failure}
    [] m = "getAssetsByOwner" ->
         {Result(Page(<<LpAsset, NftAsset, UsdcAsset>>, 3)), Result(Page(<<BrokenAsset>>, 1)),
          Result(NullResult), Failure}
    [] m = "getSignaturesForAddress" ->
         {Result([shape |-> "sigs", sigs |-> <<>>]), Result([shape |-> "sigs", sigs |-> <<"sig1">>]),
          Result(NullResult), Failure}
    [] m = "getTransaction" ->
         {Result([NullDetails EXCEPT !.isNull = FALSE, !.accountKeys = <<WalletKey, OtherKey>>,
                                     !.instructions = <<SolFrom(WalletKey)>>, !.fee = 5000]),
          Result(NullDetails), Failure}

PriceReplies == {[kind |-> "price", value |-> 150], [kind |-> "http", value |-> 429],
                 [kind |-> "malformed", value |-> 0], [kind |-> "network", value |-> 0]}

Over(call) == call.pc \in {"returned", "thrown"}

\* line 1316: !signatures || signatures.length === 0
NoSignatures(signatures) == IF signatures.shape = "null" THEN TRUE ELSE signatures.sigs = <<>>

\* the value an async function's promise settles with
Fulfilled(value) == [status |-> "fulfilled", value |-> value]

\* getSolBalance (370-378), in lamports: res.value of a null result throws
GetSolBalance(call) ==
  Fulfilled(IF call.pc = "thrown" \/ call.result.shape = "null" THEN 0 ELSE call.result.lamports)

\* getTokenAccounts (441-502)
GetTokenAccounts(call) ==
  Fulfilled(IF call.pc = "thrown" \/ call.result.shape = "null" THEN <<>>
            ELSE IF PushTokens(call.result.items, 1, <<>>, FALSE).threw THEN <<>>
            ELSE SortTokens(PushTokens(call.result.items, 1, <<>>, FALSE).tokens))

RecentTransactions(isNull, transactions, hasMore) ==
  [isNull |-> isNull, transactions |-> transactions, hasMore |-> hasMore]

\* a catch block that returns null
GetRecentTransactionsNull(sigCall, txCall) ==
  Fulfilled(IF sigCall.pc = "thrown" THEN RecentTransactions(TRUE, <<>>, FALSE)
            ELSE RecentTransactions(FALSE, <<>>, FALSE))

\* getRecentTransactions (1296-1355) for at most one signature, and
\* getTransactionDetails (679-685, 1170-1173) for it
GetRecentTransactions(sigCall, txCall) ==
  Fulfilled(
    IF sigCall.pc = "thrown" \/ NoSignatures(sigCall.result)
    THEN RecentTransactions(FALSE, <<>>, FALSE)
    ELSE RecentTransactions(
           FALSE,
           IF txCall.pc = "thrown" \/ GetTransactionDetails(txCall.result).isNull THEN <<>>
           ELSE <<GetTransactionDetails(txCall.result)>>,
           Len(sigCall.result.sigs) = TX_LIMIT))

\* lines 1419-1430: the WalletData built from the four settled promises
WalletData(address, balance, tokens, transactionsResult, price) ==
  [address |-> address,
   balance |-> IF balance.status = "fulfilled" THEN balance.value ELSE 0,
   tokens |-> IF tokens.status = "fulfilled" THEN tokens.value ELSE <<>>,
   transactions |-> IF transactionsResult.status = "fulfilled"
                    THEN transactionsResult.value.transactions ELSE <<>>,
   usdValue |-> IF balance.status = "fulfilled" /\ price.status = "fulfilled"
                THEN balance.value * price.value ELSE 0]

\* handleWalletSubmit(address) up to the first await that takes time
HandleWalletSubmit(address) ==
  /\ walletCall.pc = "idle"
  /\ walletCall' =
       IF ValidAddress(address)
       THEN [IdleWallet EXCEPT !.pc = "running", !.address = address, !.loading = TRUE]
       ELSE [IdleWallet EXCEPT !.pc = "rejected", !.address = address,
                               !.error = "Invalid Solana address",
                               !.toast = "Error loading wallet"]
  /\ UNCHANGED <<clock, rlRequests, solPrice, apiVars, netVars>>
  /\ WalletFrame

\* the calls of lines 1412-1414, in the order of the array
SubFetches == <<"getBalance", "getAssetsByOwner", "getSignaturesForAddress">>

Started(k) == \A j \in 1..k : apiCall[SubFetches[j]].pc # "idle"

WalletSubFetch(k) ==
  /\ walletCall.pc = "running"
  /\ Started(k - 1)
  /\ ApiCallStart(SubFetches[k])

\* getSolPrice() (403-438) up to its fetch; the window of "coingecko" has
\* room, fetchWalletData being its only user here
GetSolPriceStart ==
  /\ walletCall.pc = "running" /\ Started(3) /\ walletCall.price.pc = "idle"
  /\ solPrice' = GetSolPriceCache(solPrice, clock)
  /\ IF ~GetSolPriceResult(solPrice, clock).isNull
     THEN /\ walletCall' = [walletCall EXCEPT !.price =
                              [pc |-> "done", value |-> GetSolPriceResult(solPrice, clock).data,
                               failed |-> FALSE]]
          /\ UNCHANGED <<rlRequests, netVars>>
     ELSE /\ ~MustWaitIn(InWindow(rlRequests["coingecko"], clock - WINDOW_MS),
                         MaxRequests, clock, WINDOW_MS)
          /\ rlRequests' = [rlRequests EXCEPT !["coingecko"] =
                              Append(InWindow(@, clock - WINDOW_MS), clock)]
          /\ netSent' = [netSent EXCEPT !["getSolPrice"] = @ + 1]
          /\ netLog' = netLog \cup {[origin |-> "browser", to |-> "coingecko", keys |-> {}]}
          /\ walletCall' = [walletCall EXCEPT !.price.pc = "fetching"]
  /\ UNCHANGED <<clock, apiVars>>
  /\ WalletFrame

\* the fetch of line 418 settles: 424-433, or the catch 434-437
GetSolPriceSettles(reply) ==
  /\ walletCall.price.pc = "fetching"
  /\ IF reply.kind = "price"
     THEN /\ solPrice' = SetSolPriceCache(reply.value, clock)
          /\ walletCall' = [walletCall EXCEPT !.price =
                              [pc |-> "done", value |-> reply.value, failed |-> FALSE]]
     ELSE /\ walletCall' = [walletCall EXCEPT !.price = [pc |-> "done", value |-> 0, failed |-> TRUE]]
          /\ UNCHANGED solPrice
  /\ UNCHANGED <<clock, rlRequests, apiVars, netVars>>
  /\ WalletFrame

\* getTransactionDetails(sig.signature) for the signature returned (1326)
WalletTransactionDetails ==
  /\ walletCall.pc = "running"
  /\ apiCall["getSignaturesForAddress"].pc = "returned"
  /\ ~NoSignatures(apiCall["getSignaturesForAddress"].result)
  /\ ApiCallStart("getTransaction")

\* the four promises of Promise.allSettled have settled
SubFetchesSettled ==
  /\ Over(apiCall["getBalance"])
  /\ Over(apiCall["getAssetsByOwner"])
  /\ \/ apiCall["getSignaturesForAddress"].pc = "thrown"
     \/ /\ apiCall["getSignaturesForAddress"].pc = "returned"
        /\ IF NoSignatures(apiCall["getSignaturesForAddress"].result) THEN TRUE
           ELSE Over(apiCall["getTransaction"])
  /\ walletCall.price.pc = "done"

\* lines 1417-1443, then lines 21-36 of handleWalletSubmit
Outcome(w, transactionsResult) ==
  IF transactionsResult.status = "fulfilled" /\ transactionsResult.value.isNull
  THEN [w EXCEPT !.pc = "rejected", !.error = "Unable to fetch wallet data",
                 !.toast = "Error loading wallet", !.loading = FALSE]
  ELSE [w EXCEPT !.pc = "resolved", !.toast = "Wallet loaded successfully", !.loading = FALSE,
                 !.result = <<WalletData(w.address, GetSolBalance(apiCall["getBalance"]),
                                         GetTokenAccounts(apiCall["getAssetsByOwner"]),
                                         transactionsResult, Fulfilled(w.price.value))>>]

FetchWalletDataSettles ==
  /\ walletCall.pc = "running"
  /\ SubFetchesSettled
  /\ walletCall' = Outcome(walletCall, GetRecentTransactions(apiCall["getSignaturesForAddress"],
                                                             apiCall["getTransaction"]))
  /\ UNCHANGED <<clock, rlRequests, solPrice, apiVars, netVars>>
  /\ WalletFrame

WalletMethods == {"getBalance", "getAssetsByOwner", "getSignaturesForAddress", "getTransaction"}

\* an upstream that has failed a call more than MaxOutages times stays down for it
Answers(m, reply) == reply.kind = "result" => Len(apiHist[m].failed) <= MaxOutages

WalletNext ==
  \/ \E address \in Addresses : HandleWalletSubmit(address)
  \/ \E k \in 1..3 : WalletSubFetch(k)
  \/ GetSolPriceStart
  \/ \E reply \in PriceReplies : GetSolPriceSettles(reply)
  \/ WalletTransactionDetails
  \/ \E m \in WalletMethods : \E reply \in WalletReplies(m) :
       Started(3) /\ Answers(m, reply) /\ ApiFetchSettles(m, reply)
  \/ \E m \in WalletMethods : ApiRetry(m)
  \/ \E m \in WalletMethods : ApiSlotGranted(m)
  \/ RetryTimerDue
  \/ FetchWalletDataSettles

(***************************************************************************)
(* getRecentTransactions (1296-1355) and getAllTransactions (1358-1400).   *)
(* The signatures of the address are 1, 2, ... from the newest on; a       *)
(* Transaction is written as its signature; no signature is written 0.    *)
(***************************************************************************)

\* const batchSize = 3 (line 1320)
BatchSize == 3

\* what the RPC node holds for the address: for each signature, whether
\* getTransactionDetails resolves to a Transaction for it (or to null)
Ledgers == UNION {[1..n -> BOOLEAN] : n \in 0..MaxSignatures}

\* getSignaturesForAddress(address, {limit, before}) of an RPC node that holds the ledger
SignaturesAfter(ledger, before, limit) ==
  [k \in 1..Min(limit, Len(ledger) - before) |-> before + k]

\* what callHeliusApi("getSignaturesForAddress") does: a list, null, or it throws
SignatureReplies == {"list", "null", "throws"}

IdleAllTx ==
  [pc |-> "idle", ledger |-> <<>>, maxTransactions |-> 0, allTransactions |-> <<>>,
   before |-> 0, hasMore |-> TRUE, totalFetched |-> 0,
   limit |-> 0, signatures |-> <<>>, i |-> 0, inFlight |-> {}, settled |-> <<>>,
   transactions |-> <<>>, pages |-> <<>>, result |-> <<>>]

\* a page that always asks for TX_LIMIT signatures
FullLimit(maxTransactions, totalFetched) == TX_LIMIT

\* lines 1368-1369: Math.min(TX_LIMIT, maxTransactions - totalFetched)
PageLimit(maxTransactions, totalFetched) == Min(TX_LIMIT, maxTransactions - totalFetched)

\* a batch that takes all the signatures left
RestOfList(signatures, i) == (i + 1)..Len(signatures)

\* line 1324: signatures.slice(i, i + batchSize), as positions in the list
Batch(signatures, i) == (i + 1)..Min(i + BatchSize, Len(signatures))

\* a cursor that points at the first signature of the page
FirstSignature(signatures) == signatures[1]

\* line 1344: signatures[signatures.length - 1].signature
LastSignature(signatures) == signatures[Len(signatures)]

\* what getRecentTransactions returns
RecentPage(transactions, hasMore, lastSignature) ==
  [transactions |-> transactions, hasMore |-> hasMore, lastSignature |-> lastSignature]

\* lines 1316-1318 and the catch block 1351-1354
EmptyPage == RecentPage(<<>>, FALSE, 0)

AllTxFrame ==
  UNCHANGED <<clock, rlVars, cacheVars, apiVars, netVars, txVars, proxyVars, walletCall, tokCall,
              utilCall, dash, priceCall>>

\* getAllTransactions(address, maxTransactions): lines 1362-1365
GetAllTransactions(maxTransactions) ==
  /\ allTxCall.pc = "idle"
  /\ allTxCall' = [allTxCall EXCEPT !.pc = "loop", !.maxTransactions = maxTransactions]
  /\ AllTxFrame

\* the loop condition holds (1367-1372): getRecentTransactions(address, limit,
\* before) up to its await of callHeliusApi (1311)
AllTxPageRequest ==
  /\ allTxCall.pc = "loop"
  /\ allTxCall.hasMore /\ allTxCall.totalFetched < allTxCall.maxTransactions
  /\ allTxCall' =
       [allTxCall EXCEPT
          !.pc = "signatures",
          !.limit = PageLimit(allTxCall.maxTransactions, allTxCall.totalFetched),
          !.pages = Append(@, [limit |-> PageLimit(allTxCall.maxTransactions, allTxCall.totalFetched),
                               before |-> allTxCall.before,
                               fetched |-> allTxCall.totalFetched,
                               reply |-> "none", signatures |-> <<>>,
                               transactions |-> <<>>, hasMore |-> FALSE])]
  /\ AllTxFrame

\* lines 1376-1389 of getAllTransactions, on what getRecentTransactions returned
PageReturned(call, result) ==
  LET logged == [call EXCEPT !.pages[Len(call.pages)].transactions = result.transactions,
                             !.pages[Len(call.pages)].hasMore = result.hasMore,
                             !.inFlight = {}, !.settled = <<>>, !.signatures = <<>>,
                             !.transactions = <<>>, !.i = 0]
  IN IF Len(result.transactions) = 0
     THEN [logged EXCEPT !.pc = "loop", !.hasMore = FALSE]
     ELSE [logged EXCEPT
             !.allTransactions = @ \o result.transactions,
             !.totalFetched = @ + Len(result.transactions),
             !.hasMore = result.hasMore /\ result.lastSignature # 0,
             !.before = result.lastSignature,
             !.pc = IF result.hasMore /\ result.lastSignature # 0 THEN "pageDelay" ELSE "loop"]

\* the first statements of an iteration of the for loop (1323-1327): the
\* getTransactionDetails calls of the batch are started
BatchStarted(call, signatures, i) ==
  [call EXCEPT !.pc = "batch", !.signatures = signatures, !.i = i,
               !.inFlight = Batch(signatures, i),
               !.settled = [p \in DOMAIN signatures |->
                              IF p <= i THEN call.settled[p] ELSE "pending"]]

\* callHeliusApi("getSignaturesForAddress") settles: 1316-1318, the catch
\* block, or the first batch
AllTxSignatures(reply) ==
  /\ allTxCall.pc = "signatures"
  /\ LET signatures == IF reply = "list"
                       THEN SignaturesAfter(allTxCall.ledger, allTxCall.before, allTxCall.limit)
                       ELSE <<>>
         logged == [allTxCall EXCEPT !.pages[Len(allTxCall.pages)].reply = reply,
                                     !.pages[Len(allTxCall.pages)].signatures = signatures]
     IN allTxCall' = IF Len(signatures) = 0 THEN PageReturned(logged, EmptyPage)
                     ELSE BatchStarted(logged, signatures, 0)
  /\ AllTxFrame

\* one getTransactionDetails call of the batch settles: with a Transaction,
\* or with null (679-685, 1170-1173)
AllTxDetailsSettle(p) ==
  /\ allTxCall.pc = "batch"
  /\ p \in allTxCall.inFlight
  /\ allTxCall' =
       [allTxCall EXCEPT
          !.inFlight = @ \ {p},
          !.settled[p] = IF allTxCall.ledger[allTxCall.signatures[p]] THEN "tx" ELSE "null"]
  /\ AllTxFrame

\* the Transactions of the batch, in the order of batchResults (1329-1333)
BatchValues(call) ==
  LET from == call.i + 1
      to   == Min(call.i + BatchSize, Len(call.signatures))
      kept == {p \in from..to : call.settled[p] = "tx"}
      Nth(k) == CHOOSE p \in kept : Cardinality({q \in kept : q < p}) = k - 1
  IN [k \in 1..Cardinality(kept) |-> call.signatures[Nth(k)]]

\* Promise.allSettled of the batch resolves: 1329-1338, and after the last
\* batch 1342-1350
AllTxBatchDone ==
  /\ allTxCall.pc = "batch"
  /\ allTxCall.inFlight = {}
  /\ LET pushed == [allTxCall EXCEPT !.transactions = @ \o BatchValues(allTxCall)]
     IN allTxCall' =
          IF allTxCall.i + BatchSize < Len(allTxCall.signatures)
          THEN [pushed EXCEPT !.pc = "batchDelay"]
          ELSE PageReturned(pushed,
                            RecentPage(pushed.transactions,
                                       Len(allTxCall.signatures) = allTxCall.limit,
                                       LastSignature(allTxCall.signatures)))
  /\ AllTxFrame

\* the timer of line 1337 fires: the next batch
AllTxBatchDelayOver ==
  /\ allTxCall.pc = "batchDelay"
  /\ allTxCall' = BatchStarted(allTxCall, allTxCall.signatures, allTxCall.i + BatchSize)
  /\ AllTxFrame

\* the timer of line 1387 fires
AllTxPageDelayOver ==
  /\ allTxCall.pc = "pageDelay"
  /\ allTxCall' = [allTxCall EXCEPT !.pc = "loop"]
  /\ AllTxFrame

\* the loop condition fails, or the break of line 1378: lines 1396-1399
AllTxReturn ==
  /\ allTxCall.pc = "loop"
  /\ ~(allTxCall.hasMore /\ allTxCall.totalFetched < allTxCall.maxTransactions)
  /\ allTxCall' = [allTxCall EXCEPT !.pc = "returned",
                     !.result = <<[transactions |-> allTxCall.allTransactions,
                                   totalFetched |-> allTxCall.totalFetched]>>]
  /\ AllTxFrame

AllTxNext ==
  \/ \E maxTransactions \in 0..MaxBudget : GetAllTransactions(maxTransactions)
  \/ AllTxPageRequest
  \/ \E reply \in SignatureReplies : AllTxSignatures(reply)
  \/ \E p \in 1..TX_LIMIT : AllTxDetailsSettle(p)
  \/ AllTxBatchDone
  \/ AllTxBatchDelayOver
  \/ AllTxPageDelayOver
  \/ AllTxReturn

(***************************************************************************)
(* Utility functions: getTokenBalance (1449-1466) and the conversions of   *)
(* lamports to SOL (373, 691, 1068, 1107-1109, 1188-1190).  A SOL amount   *)
(* is whole + nano / 10^9 with 0 <= nano < 10^9.                           *)
(***************************************************************************)

LAMPORTS_PER_SOL == 1000000000

\* what an owner holds, in the order the DAS node lists it
Holdings ==
  LET assets == {UsdcAsset, LpAsset, NftAsset}
  IN {<<>>} \cup {<<a>> : a \in assets}
            \cup {<<p[1], p[2]>> : p \in {q \in assets \X assets : q[1] # q[2]}}

OwnedMints == {USDC_MINT, LP_MINT, "nft"}

\* lamport amounts on both sides of one SOL
LamportAmounts == {0, 5000, 999999999, 1000000000, 1500000000}

IdleUtil ==
  [pc |-> "idle", holdings |-> <<>>, mint |-> "none", params |-> <<>>, balance |-> 0, sol |-> <<>>]

UtilFrame ==
  UNCHANGED <<clock, rlVars, cacheVars, apiVars, netVars, txVars, proxyVars, walletCall, tokCall,
              allTxCall, dash, priceCall>>

\* getAssetsByOwner on the node: the items of the asked page
AssetsByOwner(holdings, params) ==
  SubSeq(holdings, (params.page - 1) * params.limit + 1,
         Min(params.page * params.limit, Len(holdings)))

\* the parameters a request for every asset of the owner would carry
WholeWalletParams == [page |-> 1, limit |-> 1000]

\* lines 1451-1458: the parameters of the request
TokenBalanceParams == [page |-> 1, limit |-> 1]

\* lines 1460-1461: response.items.find(...) and tokenAsset?.token_info?.balance || 0
BalanceIn(items, mint) ==
  LET found == {i \in DOMAIN items : items[i].id = mint}
      first == CHOOSE i \in found : \A j \in found : i <= j
  IN IF found = {} THEN 0
     ELSE IF items[first].hasTokenInfo THEN items[first].balance ELSE 0

\* getTokenBalance(mint, owner) is called
GetTokenBalance(mint) ==
  /\ utilCall.pc = "idle"
  /\ utilCall' = [utilCall EXCEPT !.pc = "asked", !.mint = mint, !.params = TokenBalanceParams,
                                  !.balance = 0]
  /\ UtilFrame

TokenBalanceReplies == {"items", "null", "throws"}

\* callDASApi settles: with the page, with a null result (response.items
\* throws) or by throwing; the catch block returns 0 (1462-1465)
TokenBalanceSettles(reply) ==
  /\ utilCall.pc = "asked"
  /\ utilCall' = [utilCall EXCEPT
       !.pc = IF reply = "items" THEN "returned" ELSE "caught",
       !.balance = IF reply = "items"
                   THEN BalanceIn(AssetsByOwner(utilCall.holdings, utilCall.params), utilCall.mint)
                   ELSE 0]
  /\ UtilFrame

\* the caller has the balance and may call again
TokenBalanceRead ==
  /\ utilCall.pc \in {"returned", "caught"}
  /\ utilCall' = [utilCall EXCEPT !.pc = "idle"]
  /\ UtilFrame

\* lamports / 1_000_000_000 with 10^6 in the place of 10^9
LamportsPerMillion(lamports) ==
  [whole |-> lamports \div 1000000, nano |-> (lamports % 1000000) * 1000]

\* lamports / 1_000_000_000
LamportsToSol(lamports) ==
  [whole |-> lamports \div LAMPORTS_PER_SOL, nano |-> lamports % LAMPORTS_PER_SOL]

\* a - b on SOL amounts
SolMinus(a, b) ==
  IF a.nano >= b.nano THEN [whole |-> a.whole - b.whole, nano |-> a.nano - b.nano]
  ELSE [whole |-> a.whole - b.whole - 1, nano |-> a.nano + LAMPORTS_PER_SOL - b.nano]

\* line 373: res.value / 1_000_000_000
SolBalanceOf(value) == LamportsToSol(value)

\* line 691: details.meta?.fee ? details.meta.fee / 1_000_000_000 : 0
FeeOf(fee) == IF fee # 0 THEN LamportsToSol(fee) ELSE [whole |-> 0, nano |-> 0]

\* line 1068: info.lamports / 1_000_000_000
TransferAmountOf(lamports) == LamportsToSol(lamports)

\* lines 1107-1109 and 1188-1190: postSol - preSol of the two converted balances
SolDiffOf(pre, post) == SolMinus(LamportsToSol(post), LamportsToSol(pre))

\* one conversion, kept with the place and the lamports it came from; the
\* last two are remembered
Converted(place, lamports, sol) ==
  /\ utilCall.pc = "idle"
  /\ utilCall' = [utilCall EXCEPT
       !.sol = SubSeq(<<[place |-> place, lamports |-> lamports, sol |-> sol]>> \o @, 1,
                      Min(2, Len(@) + 1))]
  /\ UtilFrame

ConvertSolBalance(value) == Converted("balance", value, SolBalanceOf(value))
ConvertFee(fee) == Converted("fee", fee, FeeOf(fee))
\* line 1065: if (info.lamports)
ConvertTransfer(lamports) == lamports # 0 /\ Converted("transfer", lamports, TransferAmountOf(lamports))
ConvertBalanceChange(pre, post) == Converted("change", post - pre, SolDiffOf(pre, post))

UtilNext ==
  \/ \E mint \in OwnedMints : GetTokenBalance(mint)
  \/ \E reply \in TokenBalanceReplies : TokenBalanceSettles(reply)
  \/ TokenBalanceRead
  \/ \E value \in LamportAmounts : ConvertSolBalance(value)
  \/ \E fee \in LamportAmounts : ConvertFee(fee)
  \/ \E lamports \in LamportAmounts : ConvertTransfer(lamports)
  \/ \E pre \in LamportAmounts, post \in LamportAmounts : ConvertBalanceChange(pre, post)

(***************************************************************************)
(* Dashboard (unnamed/part_003 10-37) with its WalletInput                 *)
(* (components/WalletInput.tsx).  A load is a fetchWalletData call that    *)
(* has not settled; loads holds their addresses, oldest first.             *)
(***************************************************************************)

\* fetchWalletData calls that may be pending together
MaxLoads == 2

\* the balances a load may find, in lamports
LoadedBalances == {0, 2000000}

IdleDash ==
  [walletAddress |-> <<>>, loading |-> FALSE, walletData |-> <<>>, toast |-> "",
   loads |-> <<>>, submitted |-> <<>>, previous |-> <<>>]

DashFrame ==
  UNCHANGED <<clock, rlVars, cacheVars, apiVars, netVars, txVars, proxyVars, walletCall, tokCall,
              allTxCall, utilCall, priceCall>>

\* WalletInput line 42: onChange sets the text of the input
SetWalletAddress(text) ==
  /\ dash' = [dash EXCEPT !.walletAddress = text]
  /\ DashFrame

\* a button that forgets the loading flag
DisabledWhenInvalid(walletAddress, loading) == ~ValidAddress(walletAddress)

\* WalletInput line 47: disabled={!validateSolanaAddress(walletAddress) || loading};
\* a form whose submit button is disabled is not submitted
SubmitDisabled(walletAddress, loading) == ~ValidAddress(walletAddress) \/ loading

\* WalletInput.handleSubmit (21-26) and Dashboard.handleWalletSubmit up to
\* its await (15-19)
HandleSubmit ==
  /\ ~SubmitDisabled(dash.walletAddress, dash.loading)
  /\ Len(dash.loads) < MaxLoads
  /\ dash' = IF ValidAddress(dash.walletAddress)
             THEN [dash EXCEPT !.loading = TRUE,
                               !.loads = Append(@, dash.walletAddress),
                               !.previous = dash.submitted,
                               !.submitted = <<dash.walletAddress>>]
             ELSE dash
  /\ DashFrame

\* what fetchWalletData resolves with for the address: lines 1419-1425
LoadedData(address, lamports) ==
  [address |-> address, balance |-> SolBalanceOf(lamports)]

\* the fetchWalletData call k settles and handleWalletSubmit runs to its end
\* (19-36): it rejects for an address that fails the test of line 1404
LoadSettles(k, lamports) ==
  /\ k \in DOMAIN dash.loads
  /\ dash' = [dash EXCEPT
       !.walletData = IF ValidAddress(dash.loads[k])
                      THEN <<LoadedData(dash.loads[k], lamports)>> ELSE @,
       !.toast = IF ValidAddress(dash.loads[k])
                 THEN "Wallet loaded successfully" ELSE "Error loading wallet",
       !.loading = FALSE,
       !.loads = SubSeq(@, 1, k - 1) \o SubSeq(@, k + 1, Len(@))]
  /\ DashFrame

DashNext ==
  \/ \E text \in Addresses : SetWalletAddress(text)
  \/ HandleSubmit
  \/ \E k \in 1..MaxLoads, lamports \in LoadedBalances : LoadSettles(k, lamports)

(***************************************************************************)
(* The cached getters: getTokenSymbol (253-272), getTokenPrice (381-400)   *)
(* and getSolPrice (403-438).  Time is in ticks, as for the caches.        *)
(***************************************************************************)

\* concurrent calls of the getters, and calls started in one behaviour
NumGetterCalls == 2
MaxGetterCalls == 3

Getters == {"getTokenSymbol", "getTokenPrice", "getSolPrice"}

\* the cache key a getter is called for
GetterKeys(fn) == IF fn = "getSolPrice" THEN {"solana"} ELSE {"mintA"}

GetterTargets == {<<fn, key>> : fn \in Getters, key \in {"solana", "mintA"}}

\* mint.slice(0, 4) + "..." + mint.slice(-4)   (262, 270)
ShortenedMint(mint) ==
  CASE mint = "mintA" -> "mint...intA"
    [] mint = "mintB" -> "mint...intB"
    [] OTHER -> mint

\* what the fetch of a getter can settle with: an asset (with or without the
\* member read), a null result, or callDASApi / fetch throwing
Fetched(kind, has, data) == [kind |-> kind, has |-> has, data |-> <<data>>]

GetterReplies(fn) ==
  CASE fn = "getTokenSymbol" ->
         {Fetched("asset", TRUE, "BONK"), Fetched("asset", FALSE, ""), Fetched("null", FALSE, ""),
          Fetched("throws", FALSE, "")}
    [] fn = "getTokenPrice" ->
         {Fetched("asset", TRUE, 7), Fetched("asset", FALSE, 0), Fetched("null", FALSE, 0),
          Fetched("throws", FALSE, 0)}
    [] fn = "getSolPrice" ->
         {Fetched("asset", TRUE, 150), Fetched("null", FALSE, 0),
          Fetched("throws", FALSE, 0)}

IdleGetter ==
  [pc |-> "idle", fn |-> "none", key |-> "none", startedAt |-> 0, before |-> <<>>,
   hit |-> FALSE, failed |-> FALSE, value |-> <<>>, settledAt |-> 0, slots |-> 0,
   requests |-> 0, now |-> 0, window |-> <<>>, wakeAt |-> 0]

\* calls: the getter calls in progress; fetched: per getter and key, the last
\* fetch that succeeded (when, and with what); started: calls started so far
IdlePrice ==
  [calls |-> [c \in 1..NumGetterCalls |-> IdleGetter],
   fetched |-> [t \in GetterTargets |-> <<>>],
   started |-> 0]

\* one TTL for all three caches
SameTtl(fn) == TTL_SOL_PRICE

\* the CACHE_TTL member each getter passes (255, 383, 234)
TtlOf(fn) ==
  CASE fn = "getTokenSymbol" -> TTL_TOKEN_METADATA
    [] fn = "getTokenPrice"  -> TTL_TOKEN_PRICE
    [] fn = "getSolPrice"    -> TTL_SOL_PRICE

\* a getFromCache that follows TtlOf: lines 212-222 and 231-240
Lookup(cacheMap, key, fn, now) ==
  IF key \notin DOMAIN cacheMap THEN Null
  ELSE IF Expired(cacheMap[key], TtlOf(fn), now) THEN Null
  ELSE Value(cacheMap[key].data)

AfterLookup(cacheMap, key, fn, now) ==
  IF key \in DOMAIN cacheMap /\ Expired(cacheMap[key], TtlOf(fn), now)
  THEN MapDelete(cacheMap, key) ELSE cacheMap

\* cache.solPrice as a map with the one key "solana"
SolPriceMap(sp) == IF sp = <<>> THEN <<>> ELSE [k \in {"solana"} |-> sp[1]]
SolPriceOf(cacheMap) == IF "solana" \in DOMAIN cacheMap THEN <<cacheMap["solana"]>> ELSE <<>>

\* the cache of a getter
CacheOf(fn) ==
  CASE fn = "getTokenSymbol" -> tokenSymbolCache
    [] fn = "getTokenPrice"  -> tokenPrices
    [] fn = "getSolPrice"    -> SolPriceMap(solPrice)

\* the three caches with the cache of fn replaced
CachesBecome(fn, cacheMap) ==
  /\ tokenSymbolCache' = IF fn = "getTokenSymbol" THEN cacheMap ELSE tokenSymbolCache
  /\ tokenPrices' = IF fn = "getTokenPrice" THEN cacheMap ELSE tokenPrices
  /\ solPrice' = IF fn = "getSolPrice" THEN SolPriceOf(cacheMap) ELSE solPrice

\* the limiter key and the kind of request behind each getter (335, 413)
GetterSlotKey(fn) == IF fn = "getSolPrice" THEN "coingecko" ELSE "helius-das"
GetterRequest(fn) == IF fn = "getSolPrice" THEN "getSolPrice" ELSE "callDASApi"

\* the value the catch block returns (269-270, 396-398, 434-436)
Fallback(fn, key) == IF fn = "getTokenSymbol" THEN <<ShortenedMint(key)>> ELSE <<0>>

\* what the try block makes of the reply: the value it caches and returns,
\* or a throw (260-261, 389-390, 424-429)
Fetch(fn, key, reply) ==
  CASE reply.kind = "throws" -> [threw |-> TRUE, value |-> <<>>]
    [] reply.kind = "null" ->
         IF fn = "getTokenSymbol" THEN [threw |-> FALSE, value |-> <<ShortenedMint(key)>>]
         ELSE [threw |-> TRUE, value |-> <<>>]
    [] OTHER ->
         IF reply.has THEN [threw |-> FALSE, value |-> reply.data]
         ELSE [threw |-> FALSE, value |-> Fallback(fn, key)]

\* a catch block that caches what it returns
CacheFallback(cacheMap, key, fallback, now) == SetCacheMap(cacheMap, key, fallback[1], now)

\* the catch blocks (268-271, 396-399, 434-437) leave the cache alone
AfterCatch(cacheMap, key, fallback, now) == cacheMap

PriceFrame ==
  UNCHANGED <<rlCaller, rlAdmitted, cacheGet, apiVars, netLog, txVars, proxyVars, walletCall,
              tokCall, allTxCall, utilCall, dash>>

\* the request is issued: the slot has been recorded by waitForSlot (192-194)
Requesting(call, fn) ==
  [call EXCEPT !.pc = "fetching", !.slots = @ + 1, !.requests = @ + 1]

\* a getter is called (the call takes the first free place of calls): the
\* cache check, and on a miss waitForSlot up to its await or, when it does
\* not wait, up to the fetch
GetterCalled(c, fn, key) ==
  LET call == priceCall.calls[c]
      found == Lookup(CacheOf(fn), key, fn, clock)
      begun == [IdleGetter EXCEPT !.fn = fn, !.key = key, !.startedAt = clock,
                                  !.before = priceCall.fetched[<<fn, key>>]]
      window == InWindow(rlRequests[GetterSlotKey(fn)], clock - WindowTicks)
  IN /\ call.pc = "idle"
     /\ \A d \in 1..(c - 1) : priceCall.calls[d].pc # "idle"
     /\ priceCall.started < MaxGetterCalls
     /\ CachesBecome(fn, AfterLookup(CacheOf(fn), key, fn, clock))
     /\ IF ~found.isNull
        THEN /\ priceCall' = [priceCall EXCEPT !.started = @ + 1,
                                !.calls[c] = [begun EXCEPT !.pc = "done", !.hit = TRUE,
                                                            !.value = <<found.data>>,
                                                            !.settledAt = clock]]
             /\ UNCHANGED <<rlRequests, netSent>>
        ELSE IF MustWait(window, MaxRequests, clock)
        THEN /\ priceCall' = [priceCall EXCEPT !.started = @ + 1,
                                !.calls[c] = [begun EXCEPT !.pc = "waiting", !.now = clock,
                                                !.window = window,
                                                !.wakeAt = window[1] + WindowTicks]]
             /\ UNCHANGED <<rlRequests, netSent>>
        ELSE /\ priceCall' = [priceCall EXCEPT !.started = @ + 1,
                                               !.calls[c] = Requesting(begun, fn)]
             /\ rlRequests' = [rlRequests EXCEPT ![GetterSlotKey(fn)] = Append(window, clock)]
             /\ netSent' = [netSent EXCEPT ![GetterRequest(fn)] = @ + 1]
     /\ UNCHANGED clock
     /\ PriceFrame

\* the timer of waitForSlot fires (190-194) and the request is issued
GetterSlot(c) ==
  LET call == priceCall.calls[c]
  IN /\ call.pc = "waiting"
     /\ clock >= call.wakeAt
     /\ priceCall' = [priceCall EXCEPT !.calls[c] = Requesting(call, call.fn)]
     /\ rlRequests' = [rlRequests EXCEPT ![GetterSlotKey(call.fn)] = Append(call.window, call.now)]
     /\ netSent' = [netSent EXCEPT ![GetterRequest(call.fn)] = @ + 1]
     /\ UNCHANGED <<clock, tokenSymbolCache, tokenPrices, solPrice>>
     /\ PriceFrame

\* callDASApi (after its retries) or the CoinGecko fetch settles: the rest of
\* the try block, or the catch block
GetterSettles(c, fn, reply) ==
  LET call == priceCall.calls[c]
      got == Fetch(call.fn, call.key, reply)
  IN /\ call.pc = "fetching" /\ call.fn = fn
     /\ IF got.threw
        THEN /\ CachesBecome(call.fn, AfterCatch(CacheOf(call.fn), call.key,
                                                  Fallback(call.fn, call.key), clock))
             /\ priceCall' = [priceCall EXCEPT
                                !.calls[c] = [call EXCEPT !.pc = "done", !.failed = TRUE,
                                                           !.settledAt = clock,
                                                           !.value = Fallback(call.fn, call.key)]]
        ELSE /\ CachesBecome(call.fn, SetCacheMap(CacheOf(call.fn), call.key, got.value[1], clock))
             /\ priceCall' = [priceCall EXCEPT
                                !.calls[c] = [call EXCEPT !.pc = "done", !.value = got.value,
                                                           !.settledAt = clock],
                                !.fetched[<<call.fn, call.key>>] =
                                   <<[at |-> clock, value |-> got.value]>>]
     /\ UNCHANGED <<clock, rlRequests, netSent>>
     /\ PriceFrame

\* the caller has the value
GetterReturned(c) ==
  /\ priceCall.calls[c].pc = "done"
  /\ priceCall' = [priceCall EXCEPT !.calls[c] = IdleGetter]
  /\ UNCHANGED <<clock, rlRequests, netSent, tokenSymbolCache, tokenPrices, solPrice>>
  /\ PriceFrame

\* time passes; a timer that is due fires before the clock moves on
GetterTick ==
  /\ clock < MaxCacheClock
  /\ \A c \in 1..NumGetterCalls :
       priceCall.calls[c].pc = "waiting" => priceCall.calls[c].wakeAt > clock
  /\ clock' = clock + 1
  /\ UNCHANGED <<priceCall, rlRequests, netSent, tokenSymbolCache, tokenPrices, solPrice>>
  /\ PriceFrame

GettersNext ==
  \/ \E c \in 1..NumGetterCalls, fn \in Getters : \E key \in GetterKeys(fn) : GetterCalled(c, fn, key)
  \/ \E c \in 1..NumGetterCalls : GetterSlot(c)
  \/ \E c \in 1..NumGetterCalls, fn \in Getters : \E reply \in GetterReplies(fn) : GetterSettles(c, fn, reply)
  \/ \E c \in 1..NumGetterCalls : GetterReturned(c)
  \/ GetterTick


(***************************************************************************)
(* StatsCards (components/StatsCards.tsx 19-66): the statistics computed   *)
(* from the transactions.  A description is read word by word.             *)
(***************************************************************************)

\* a word of a rendered description: literal text, a number printed by
\* toFixed, a token symbol or a protocol name, and the punctuation after it
Lit(text)       == [kind |-> "lit", text |-> text, value |-> 0, name |-> <<>>, tail |-> ""]
Num(value, tail) == [kind |-> "num", text |-> "", value |-> value, name |-> <<>>, tail |-> tail]
Sym(text, tail) == [kind |-> "sym", text |-> text, value |-> 0, name |-> <<>>, tail |-> tail]
Name(name, tail) == [kind |-> "name", text |-> "", value |-> 0, name |-> name, tail |-> tail]

\* the words of the template literals of getTransactionDetails (769-1133)
Words(description) ==
  LET t == description.template
      a == description.args
  IN CASE t = "SWAP: {} {} <arrow> {} {}; {}" ->
            <<Lit("SWAP:"), Num(a[1], ""), Sym(a[2], ""), Lit("<arrow>"),
              Num(a[3], ""), Sym(a[4], ";"), Name(a[5], "")>>
       [] t = "Liquidity: {} {} <arrow> {} {}; {}" ->
            <<Lit("Liquidity:"), Num(a[1], ""), Sym(a[2], ""), Lit("<arrow>"),
              Num(a[3], ""), Sym(a[4], ";"), Name(a[5], "")>>
       [] t \in {"Liquidity Withdrawal: {} {}; {}", "Liquidity Provision: {} {}; {}"} ->
            <<Lit("Liquidity"), Lit(IF t = "Liquidity Withdrawal: {} {}; {}"
                                    THEN "Withdrawal:" ELSE "Provision:"),
              Num(a[1], ""), Sym(a[2], ";"), Name(a[3], "")>>
       [] t \in {"{} Borrow: {} {}", "{} Repay: {} {}", "{} Deposit: {} {}"} ->
            <<Name(a[1], ""), Lit(IF t = "{} Borrow: {} {}" THEN "Borrow:"
                                  ELSE IF t = "{} Repay: {} {}" THEN "Repay:" ELSE "Deposit:"),
              Num(a[2], ""), Sym(a[3], "")>>
       [] t = "{} Deposit Return: {} {}" ->
            <<Name(a[1], ""), Lit("Deposit"), Lit("Return:"), Num(a[2], ""), Sym(a[3], "")>>
       [] t = "Drift Trading: Position Update" ->
            <<Lit("Drift"), Lit("Trading:"), Lit("Position"), Lit("Update")>>
       [] t \in {"Bridge Receive: {} {}; Wormhole", "Bridge Send: {} {}; Wormhole"} ->
            <<Lit("Bridge"), Lit(IF t = "Bridge Send: {} {}; Wormhole" THEN "Send:" ELSE "Receive:"),
              Num(a[1], ""), Sym(a[2], ";"), Lit("Wormhole")>>
       [] t = "NFT {}: Transaction" -> <<Lit("NFT"), Name(a[1], ":"), Lit("Transaction")>>
       [] t \in {"Unstaking: {} {}; {}", "Staking: {} {}; {}"} ->
            <<Lit(IF t = "Staking: {} {}; {}" THEN "Staking:" ELSE "Unstaking:"),
              Num(a[1], ""), Sym(a[2], ";"), Name(a[3], "")>>
       [] t = "{}: Price Update" -> <<Name(a[1], ":"), Lit("Price"), Lit("Update")>>
       [] t = "{}: Trading" -> <<Name(a[1], ":"), Lit("Trading")>>
       [] t = "{}: Interaction" -> <<Name(a[1], ":"), Lit("Interaction")>>
       [] t = "{} {} SOL" -> <<Lit(a[1]), Num(a[2], ""), Lit("SOL")>>
       [] t = "{} {} {}" -> <<Lit(a[1]), Num(a[2], ""), Sym(a[3], "")>>
       [] t = "Unknown transaction type" -> <<Lit("Unknown"), Lit("transaction"), Lit("type")>>
       [] OTHER -> <<Lit(t)>>

\* the words that hold the letters SWAP: of the literals above SWAP: does, no
\* symbol of SymbolOf and no word of a name of DEFI_PROGRAMS does
HoldsSWAP(word) == word.kind = "lit" /\ word.text \in {"SWAP", "SWAP:"}

\* tx.description?.includes("SWAP")
IncludesSWAP(description) == \E i \in DOMAIN Words(description) : HoldsSWAP(Words(description)[i])

\* lines 48-50: the transactions counted as swaps
CountedAsSwap(tx) == tx.type = "Swap" \/ IncludesSWAP(tx.description)

\* line 54: /SWAP ([\d.]+)\s+(\w+)\s*->\s*([\d.]+)\s+(\w+)/ matches at word i:
\* SWAP and a blank, a number, a symbol, ->, a number, a symbol
MatchesAt(words, i) ==
  /\ i + 5 <= Len(words)
  /\ words[i].kind = "lit" /\ words[i].text = "SWAP"
  /\ words[i + 1].kind = "num" /\ words[i + 1].tail = ""
  /\ words[i + 2].kind = "sym" /\ words[i + 2].tail = ""
  /\ words[i + 3].kind = "lit" /\ words[i + 3].text = "->"
  /\ words[i + 4].kind = "num" /\ words[i + 4].tail = ""
  /\ words[i + 5].kind = "sym"

\* lines 54-59: what one transaction adds to the volume
VolumeOf(tx) ==
  LET words == Words(tx.description)
      found == {i \in DOMAIN words : MatchesAt(words, i)}
      first == CHOOSE i \in found : \A j \in found : i <= j
  IN IF found = {} THEN 0 ELSE Max(words[first + 1].value, words[first + 4].value)

\* lines 52-61: swapTransactions.reduce(...)
RECURSIVE TradingVolume(_)
TradingVolume(transactions) ==
  IF transactions = <<>> THEN 0
  ELSE (IF CountedAsSwap(Head(transactions)) THEN VolumeOf(Head(transactions)) ELSE 0)
         + TradingVolume(Tail(transactions))

\* the functions of the sections above at rest
LaterIdle ==
  /\ allTxCall = IdleAllTx
  /\ utilCall = IdleUtil
  /\ dash = IdleDash
  /\ priceCall = IdlePrice

(***************************************************************************)
(* Specifications                                                          *)
(***************************************************************************)

\* every module-level object as it is after the module has loaded
Init ==
  /\ clock = 0 /\ RLInit /\ CacheInit /\ ApiInit /\ TxIdle
  /\ proxyEnv = [helius |-> TRUE, supabase |-> TRUE] /\ ProxyInit
  /\ walletCall = IdleWallet /\ tokCall = IdleTok /\ LaterIdle

\* the same, with a getTransaction reply about to be classified
InitTx ==
  /\ clock = 0 /\ RLInit /\ CacheInit /\ ApiInit /\ txDetails \in TxInputs /\ txResult = <<>>
  /\ proxyEnv = [helius |-> TRUE, supabase |-> TRUE] /\ ProxyInit
  /\ walletCall = IdleWallet /\ tokCall = IdleTok /\ LaterIdle

\* the same, with the two serverless functions deployed in some configuration
InitProxy ==
  /\ clock = 0 /\ RLInit /\ CacheInit /\ ApiInit /\ TxIdle
  /\ proxyEnv \in ProxyEnvs /\ ProxyInit
  /\ walletCall = IdleWallet /\ tokCall = IdleTok /\ LaterIdle

SpecRL    == Init /\ [][RLNext]_vars
SpecCache == Init /\ [][CacheNext]_vars
SpecRetry == Init /\ [][RetryNext]_vars
SpecTx    == InitTx /\ [][TxNext]_vars
SpecProxy == InitProxy /\ [][ProxyNext]_vars

\* a page load: the price of SOL may be in the cache already
InitWallet ==
  /\ clock = 0 /\ RLInit /\ ApiInit /\ TxIdle
  /\ tokenSymbolCache = <<>> /\ tokenPrices = <<>>
  /\ solPrice \in {<<>>, SetSolPriceCache(150, 0)}
  /\ cacheGet = [flip |-> FALSE, cache |-> "none", key |-> "none", result |-> Null, age |-> 0]
  /\ proxyEnv = [helius |-> TRUE, supabase |-> TRUE] /\ ProxyInit
  /\ walletCall = IdleWallet /\ tokCall = IdleTok /\ LaterIdle

\* every timer fires and every fetch settles
SpecWallet == InitWallet /\ [][WalletNext]_vars /\ WF_vars(WalletNext)
SpecTokens == Init /\ [][TokNext]_vars /\ WF_vars(TokNext)

\* a getAllTransactions call against an RPC node that holds some ledger
InitAllTx ==
  /\ clock = 0 /\ RLInit /\ CacheInit /\ ApiInit /\ TxIdle
  /\ proxyEnv = [helius |-> TRUE, supabase |-> TRUE] /\ ProxyInit
  /\ walletCall = IdleWallet /\ tokCall = IdleTok
  /\ allTxCall \in {[IdleAllTx EXCEPT !.ledger = ledger] : ledger \in Ledgers}
  /\ utilCall = IdleUtil /\ dash = IdleDash /\ priceCall = IdlePrice

SpecAllTx == InitAllTx /\ [][AllTxNext]_vars /\ WF_vars(AllTxNext)

\* the utility functions, for an owner with some holdings
InitUtil ==
  /\ clock = 0 /\ RLInit /\ CacheInit /\ ApiInit /\ TxIdle
  /\ proxyEnv = [helius |-> TRUE, supabase |-> TRUE] /\ ProxyInit
  /\ walletCall = IdleWallet /\ tokCall = IdleTok /\ allTxCall = IdleAllTx
  /\ utilCall \in {[IdleUtil EXCEPT !.holdings = holdings] : holdings \in Holdings}
  /\ dash = IdleDash /\ priceCall = IdlePrice

SpecUtil == InitUtil /\ [][UtilNext]_vars

\* the Dashboard page: the page has loaded and nothing has been submitted
SpecDash == Init /\ [][DashNext]_vars

\* the cached getters, called again and again as time passes
SpecGetters == Init /\ [][GettersNext]_vars

(***************************************************************************)
(* Claims                                                                  *)
(***************************************************************************)

\* C1: sliding-window limit -- for every key and every instant t, at most
\* maxRequests calls of waitForSlot(key, maxRequests) have completed within
\* the interval (t - windowMs, t], however the callers interleave at the await.
C1_SlidingWindowLimit ==
  \A key \in RLKeys : \A t \in 0..clock :
    CountIn(rlAdmitted[key], LAMBDA done : done > t - WindowTicks /\ done <= t) <= MaxRequests


\* the entry a cache holds for a key: <<>> when it holds none
Stored(c, k) ==
  CASE c = "tokenSymbolCache" -> IF k \in DOMAIN tokenSymbolCache THEN <<tokenSymbolCache[k]>> ELSE <<>>
    [] c = "tokenPrices"      -> IF k \in DOMAIN tokenPrices THEN <<tokenPrices[k]>> ELSE <<>>
    [] c = "solPrice"         -> solPrice

\* the TTL the claim names for each cache
ClaimedTTL(c) ==
  CASE c = "tokenSymbolCache" -> TTL_TOKEN_METADATA
    [] c = "tokenPrices"      -> TTL_TOKEN_PRICE
    [] c = "solPrice"         -> TTL_SOL_PRICE

\* C2: TTL expiry -- a cache read returns an entry's data only when the
\* entry's age (now minus its timestamp) is at most the cache's TTL, and then
\* it returns that entry's data; when the entry is older the read removes it
\* and returns null.  So no value served is older than its TTL, after any
\* sequence of set and get operations.
C2_TTLExpiry ==
  [][\A c \in CacheNames, k \in Mints \cup {"solana"} :
       (cacheGet'.flip # cacheGet.flip /\ cacheGet'.cache = c /\ cacheGet'.key = k) =>
         LET e == Stored(c, k)
             r == cacheGet'.result
         IN /\ ~r.isNull => /\ e # <<>>
                            /\ clock - e[1].timestamp <= ClaimedTTL(c)
                            /\ r.data = e[1].data
                            /\ cacheGet'.age <= ClaimedTTL(c)
            /\ (e # <<>> /\ clock - e[1].timestamp > ClaimedTTL(c)) =>
                 /\ r.isNull
                 /\ Stored(c, k)' = <<>>
    ]_vars

\* C2 witness: a read of the price cache has just removed an entry older
\* than its TTL and returned null, while the symbol cache holds an entry whose
\* age equals its TTL
C2_Witness ==
  /\ cacheGet.cache = "tokenPrices"
  /\ cacheGet.result.isNull
  /\ cacheGet.age > TTL_TOKEN_PRICE
  /\ cacheGet.key \notin DOMAIN tokenPrices
  /\ \E m \in DOMAIN tokenSymbolCache : clock - tokenSymbolCache[m].timestamp = TTL_TOKEN_METADATA

\* the attempts all calls of one helper have made together
RECURSIVE AttemptsOf(_, _)
AttemptsOf(api, ms) ==
  IF ms = {} THEN 0
  ELSE LET m == CHOOSE x \in ms : TRUE
       IN (IF ApiOf(m) = api THEN Len(apiHist[m].started) ELSE 0) + AttemptsOf(api, ms \ {m})

\* C3: retry with exponential backoff -- one logical call to callHeliusApi or
\* callDASApi makes at most MAX_RETRIES + 1 = 4 attempts (one fetch each);
\* after its k-th failed attempt it waits RETRY_DELAY * 2^(k-1) = 1000, 2000,
\* 4000 ms before the next attempt; it returns the result of the first
\* successful attempt and makes no attempt after it; if all 4 attempts fail
\* it throws the error of the last one.
C3_RetryBackoff ==
  /\ \A api \in RequestKinds : netSent[api] = AttemptsOf(api, Methods)
  /\ \A m \in Methods :
       LET c == apiCall[m]
           h == apiHist[m]
           n == Len(h.started)
           r == Len(h.replies)
       IN /\ n <= MAX_RETRIES + 1
          /\ n <= 4
          /\ r \in {n - 1, n} /\ r >= 0
          /\ h.delays = SubSeq(<<1000, 2000, 4000>>, 1, Len(h.delays))
          /\ \A k \in 1..Len(h.delays) : h.delays[k] = RETRY_DELAY * Pow2(k - 1)
          /\ \A k \in 2..n : /\ h.replies[k - 1].kind # "result"
                             /\ Len(h.delays) >= k - 1
                             /\ h.started[k] - h.failed[k - 1] >= h.delays[k - 1]
          /\ (r > 0 /\ h.replies[r].kind = "result") =>
               /\ c.pc = "returned"
               /\ r = n
               /\ c.result = h.replies[r].value
          /\ c.pc = "returned" => (r > 0 /\ h.replies[r].kind = "result")
          /\ c.pc = "thrown" =>
               /\ n = 4 /\ r = 4
               /\ \A k \in 1..4 : h.replies[k].kind # "result"
               /\ c.error = [kind |-> h.replies[4].kind, value |-> h.replies[4].value, attempt |-> 4]
          /\ (r = 4 /\ h.replies[4].kind # "result") => c.pc = "thrown"

\* C3 witness: getBalance has thrown after four failed attempts and the
\* three waits, getAsset has returned the result of its third attempt
C3_Witness ==
  /\ apiCall["getBalance"].pc = "thrown"
  /\ apiHist["getBalance"].delays = <<1000, 2000, 4000>>
  /\ netSent["callHeliusApi"] = 4
  /\ apiCall["getAsset"].pc = "returned"
  /\ Len(apiHist["getAsset"].replies) = 3
  /\ apiHist["getBalance"].replies[4].kind # apiHist["getBalance"].replies[3].kind

\* the labels getTransactionDetails may give a transaction
Labels == {"Swap", "Liquidity", "Stake", "Unstake", "Borrow", "Repay", "Send", "Receive",
           "Trade", "NFT", "Oracle", "Unknown"}

\* no table program among the account keys, no instruction of parsed type
\* transfer, and no change of the wallet's SOL balance
NothingFound(d) ==
  /\ \A j \in DOMAIN d.accountKeys : d.accountKeys[j] \notin ProgramIds
  /\ \A i \in DOMAIN d.instructions : d.instructions[i].ptype # "transfer"
  /\ \/ d.accountKeys = <<>> \/ d.preBalances = <<>> \/ d.postBalances = <<>>
     \/ d.preBalances[1] = d.postBalances[1]

\* C4: best-effort label with default Unknown -- every Transaction returned by
\* getTransactionDetails has a type from the fixed label set and never the
\* placeholder "unknown"; when no table program, no parsed transfer
\* instruction and no wallet SOL balance change is found the result is type
\* "Unknown", detailedType "Unknown Transaction", protocol "Unknown"; and the
\* description is never empty.
C4_BestEffortLabel ==
  (txResult # <<>> /\ ~txResult[1].isNull) =>
     LET r == txResult[1]
     IN /\ r.type \in Labels
        /\ r.type # "unknown"
        /\ NothingFound(txDetails) =>
             /\ r.type = "Unknown"
             /\ r.detailedType = "Unknown Transaction"
             /\ r.protocol = <<"Unknown">>
        /\ r.description.template # ""

\* C4 witness: a transaction with instructions and balances, none of which
\* names a program of the table, a transfer or a change of the wallet's SOL,
\* has been labelled by the final fallback
C4_Witness ==
  /\ txResult # <<>> /\ ~txResult[1].isNull
  /\ NothingFound(txDetails)
  /\ txDetails.instructions # <<>>
  /\ Len(txDetails.accountKeys) = 2
  /\ txDetails.preBalances # <<>> /\ txDetails.preBalances # txDetails.postBalances
  /\ txDetails.preTokenBalances # <<>>
  /\ txResult[1].type = "Unknown"
  /\ txResult[1].description = Text("Unknown transaction type", <<>>)

\* the set of the account keys of a transaction
KeySet(accountKeys) == {accountKeys[j] : j \in DOMAIN accountKeys}

\* C5: protocol detection by table lookup -- a protocol is detected if and
\* only if some account key equals a program id of DEFI_PROGRAMS; the detected
\* name is then the first entry of DEFI_PROGRAMS in declaration order whose
\* program id is among the account keys; and the result depends only on the
\* set of account keys, not on their order.
C5_ProtocolDetection ==
  (txResult # <<>> /\ ~txResult[1].isNull) =>
     LET detected == txResult[1].detectedProtocol
         keys == KeySet(txDetails.accountKeys)
     IN /\ (detected # <<>>) <=> (keys \cap ProgramIds # {})
        /\ detected # <<>> =>
             \E i \in DOMAIN DEFI_PROGRAMS :
               /\ DEFI_PROGRAMS[i].name = detected
               /\ DEFI_PROGRAMS[i].id \in keys
               /\ \A k \in 1..(i - 1) : DEFI_PROGRAMS[k].id \notin keys
        /\ \A other \in TxAccountKeys :
             KeySet(other) = keys => DetectProtocol(other) = detected

\* C5 witness: two programs of the table are among the account keys and the
\* detected one is the later key, the earlier entry of the table
C5_Witness ==
  /\ txResult # <<>> /\ ~txResult[1].isNull
  /\ Len(txDetails.accountKeys) = 3
  /\ txDetails.accountKeys[2] # txDetails.accountKeys[3]
  /\ txDetails.accountKeys[2] \in ProgramIds
  /\ \E i \in DOMAIN DEFI_PROGRAMS :
       /\ DEFI_PROGRAMS[i].name = txResult[1].detectedProtocol
       /\ DEFI_PROGRAMS[i].id = txDetails.accountKeys[3]

\* C6: API keys are shielded from the browser -- no request issued by
\* browser-side code carries the Helius API key or the Supabase key; the keys
\* appear only in requests the two proxy handlers send upstream.
C6_KeysShielded ==
  \A r \in netLog : r.keys # {} => r.origin = "server"

\* a GET or POST the handler has what it needs to forward: its keys are
\* configured, a POST has a body (and, for Supabase, names a method), a
\* Supabase GET names a path
Accepted(h, req) ==
  /\ req.verb \in {"GET", "POST"}
  /\ proxyEnv[h]
  /\ req.verb = "POST" => (req.hasBody /\ (h = "supabase" => req.method # ""))
  /\ (req.verb = "GET" /\ h = "supabase") => req.path # ""

\* C7: the two proxy handlers are stateless forwarders -- each accepted GET or
\* POST request causes exactly one upstream request, and the response depends
\* only on that request and the upstream's reply: two servings of the same
\* request with the same upstream reply give the same status and body,
\* whatever was served before them.
C7_StatelessForwarders ==
  /\ \A h \in Handlers : proxyCall[h].pc = "awaiting" =>
       (Accepted(h, proxyCall[h].req) /\ proxyCall[h].sent = 1)
  /\ \A i \in DOMAIN proxyLog :
       Accepted(proxyLog[i].handler, proxyLog[i].req) => proxyLog[i].upstream = 1
  /\ \A i, j \in DOMAIN proxyLog :
       (/\ proxyLog[i].handler = proxyLog[j].handler
        /\ proxyLog[i].req = proxyLog[j].req
        /\ proxyLog[i].reply = proxyLog[j].reply)
         => proxyLog[i].response = proxyLog[j].response

\* C7 witness: the Helius handler has forwarded the same POST twice and got
\* the same reply, with a different request served in between, and answered
\* 200 both times
C7_Witness ==
  /\ Len(proxyLog) = 3
  /\ proxyLog[1].handler = "helius" /\ proxyLog[1].req.verb = "POST"
  /\ proxyLog[1].upstream = 1 /\ proxyLog[1].response.status = 200
  /\ proxyLog[3].handler = "helius" /\ proxyLog[3].req = proxyLog[1].req
  /\ proxyLog[3].reply = proxyLog[1].reply
  /\ proxyLog[2].req # proxyLog[1].req
  /\ proxyLog[2].response.status # 200

\* the pattern of an address: 32 to 44 characters of the base58 alphabet
MatchesPattern(address) ==
  /\ Len(address) \in 32..44
  /\ {address[i] : i \in DOMAIN address} \subseteq Base58

\* C8: fetchWalletData rejects an address that does not match the base58
\* pattern of 32 to 44 characters with "Invalid Solana address", and the step
\* that rejects it sends no request and leaves the caches, the rate limiters
\* and the helper calls as they were.
C8_InvalidAddressRejected ==
  [][(walletCall.pc = "idle" /\ walletCall'.pc # "idle" /\ ~MatchesPattern(walletCall'.address))
       => /\ walletCall'.pc = "rejected"
          /\ walletCall'.error = "Invalid Solana address"
          /\ UNCHANGED <<netVars, rlVars, cacheVars, apiVars>>
          /\ netLog' = {}]_vars

C8_Witness ==
  /\ walletCall.pc = "rejected"
  /\ walletCall.error = "Invalid Solana address"
  /\ Len(walletCall.address) = 31
  /\ netLog = {}

\* the WalletData fetchWalletData resolved with holds the default of every
\* sub-fetch that failed
DefaultsReplaceFailures ==
  LET data == walletCall.result[1]
  IN /\ apiCall["getBalance"].pc = "thrown" => data.balance = 0 /\ data.usdValue = 0
     /\ apiCall["getAssetsByOwner"].pc = "thrown" => data.tokens = <<>>
     /\ apiCall["getSignaturesForAddress"].pc = "thrown" => data.transactions = <<>>
     /\ apiCall["getTransaction"].pc = "thrown" => data.transactions = <<>>
     /\ walletCall.price.failed => data.usdValue = 0

\* C9: for an address that passes validation fetchWalletData never rejects and
\* the toast "Error loading wallet" is never shown; every call resolves, with
\* the default (0, [], [], 0) in place of each sub-fetch that failed.
C9_AlwaysResolves ==
  /\ [](walletCall.pc = "rejected" => ~MatchesPattern(walletCall.address))
  /\ [](walletCall.toast = "Error loading wallet" => ~MatchesPattern(walletCall.address))
  /\ [](walletCall.pc = "resolved" => DefaultsReplaceFailures)
  /\ (walletCall.pc = "running") ~> (walletCall.pc = "resolved" /\ ~walletCall.loading)

C9_Witness ==
  /\ walletCall.pc = "resolved"
  /\ MatchesPattern(walletCall.address)
  /\ apiCall["getBalance"].pc = "thrown"
  /\ apiCall["getAssetsByOwner"].pc = "thrown"
  /\ apiCall["getSignaturesForAddress"].pc = "thrown"
  /\ walletCall.price.failed
  /\ walletCall.result[1].balance = 0 /\ walletCall.result[1].tokens = <<>>
  /\ walletCall.result[1].transactions = <<>> /\ walletCall.result[1].usdValue = 0

\* the pages asked for so far, the one in flight included
PagesAsked ==
  tokCall.requested \o (IF apiCall["getAssetsByOwner"].pc # "idle" THEN <<tokCall.page>> ELSE <<>>)

\* the mints of the tokens a page adds: its fungible items with a balance, up
\* to the first one that cannot be read
RECURSIVE MintsOfPage(_)
MintsOfPage(items) ==
  IF items = <<>> THEN <<>>
  ELSE IF ~(Head(items).hasTokenInfo /\ Head(items).balance > 0) THEN MintsOfPage(Tail(items))
  ELSE IF ~Head(items).hasContent THEN <<>>
  ELSE <<Head(items).id>> \o MintsOfPage(Tail(items))

RECURSIVE MintsOfPages(_)
MintsOfPages(pages) ==
  IF pages = <<>> THEN <<>> ELSE MintsOfPage(Head(pages).items) \o MintsOfPages(Tail(pages))

Count(x, seq) == Cardinality({i \in DOMAIN seq : seq[i] = x})

\* C10: getAllTokenAccounts asks for pages 1, 2, 3, ... in order, none skipped
\* or repeated, at most maxPages of them; a page that is empty, short or
\* failed is the last one asked for; the call always returns, and what it
\* returns are the tokens accumulated from the pages fetched.
C10_Pagination ==
  /\ [](\A i \in DOMAIN PagesAsked : PagesAsked[i] = i)
  /\ [](Len(PagesAsked) <= tokCall.maxPages)
  /\ [](\A i \in DOMAIN tokCall.pages :
          tokCall.pages[i].kind # "full" => i = Len(tokCall.pages) /\ Len(PagesAsked) = i)
  /\ [](tokCall.pc = "returned" =>
          /\ Len(tokCall.result[1].tokens) = Len(MintsOfPages(tokCall.pages))
          /\ \A mint \in {USDC_MINT, LP_MINT, "nft", "bad"} :
               Count(mint, [i \in DOMAIN tokCall.result[1].tokens |-> tokCall.result[1].tokens[i].mint])
                 = Count(mint, MintsOfPages(tokCall.pages)))
  /\ (tokCall.pc = "loop") ~> (tokCall.pc = "returned")

C10_Witness ==
  /\ tokCall.pc = "returned"
  /\ tokCall.maxPages = 3
  /\ tokCall.requested = <<1, 2>>
  /\ tokCall.pages[1].kind = "full" /\ tokCall.pages[2].kind = "failed"
  /\ Len(tokCall.result[1].tokens) = TOKEN_PAGE_SIZE + 1

\* C11: getAllTransactions terminates and respects its budget: totalFetched
\* equals transactions.length and never exceeds maxTransactions, every page is
\* asked with limit = min(TX_LIMIT, maxTransactions - totalFetched), and
\* totalFetched has grown whenever the loop goes on to another page.
C11_BudgetRespected ==
  /\ [](/\ allTxCall.totalFetched = Len(allTxCall.allTransactions)
        /\ allTxCall.totalFetched <= allTxCall.maxTransactions)
  /\ [](allTxCall.pc = "returned" =>
          /\ allTxCall.result[1].totalFetched = Len(allTxCall.result[1].transactions)
          /\ allTxCall.result[1].totalFetched <= allTxCall.maxTransactions)
  /\ [](\A k \in DOMAIN allTxCall.pages :
          LET remaining == allTxCall.maxTransactions - allTxCall.pages[k].fetched
              limit == allTxCall.pages[k].limit
          IN /\ limit <= TX_LIMIT /\ limit <= remaining
             /\ limit = TX_LIMIT \/ limit = remaining
             /\ Len(allTxCall.pages[k].signatures) <= limit)
  /\ [](\A k \in 2..Len(allTxCall.pages) :
          allTxCall.pages[k].fetched > allTxCall.pages[k - 1].fetched)
  /\ (allTxCall.pc = "loop") ~> (allTxCall.pc = "returned")

C11_Witness ==
  /\ allTxCall.pc = "returned"
  /\ allTxCall.result[1].totalFetched = allTxCall.maxTransactions
  /\ Len(allTxCall.pages) = 2
  /\ allTxCall.pages[1].limit = TX_LIMIT
  /\ allTxCall.pages[2].limit < TX_LIMIT

\* the signatures of the ledger whose details can be fetched, newest first
FetchableOf(ledger) ==
  LET kept == {p \in DOMAIN ledger : ledger[p]}
      Nth(k) == CHOOSE p \in kept : Cardinality({q \in kept : q < p}) = k - 1
  IN [k \in 1..Cardinality(kept) |-> Nth(k)]

\* C12: when no signature request failed, getAllTransactions returns every
\* signature of the address whose details can be fetched, up to the budget
\* of maxTransactions.
C12_AllWithinBudget ==
  (/\ allTxCall.pc = "returned"
   /\ \A k \in DOMAIN allTxCall.pages : allTxCall.pages[k].reply = "list")
    => allTxCall.result[1].transactions =
         SubSeq(FetchableOf(allTxCall.ledger), 1,
                Min(allTxCall.maxTransactions, Len(FetchableOf(allTxCall.ledger))))

\* the two amounts written in a swap description and the larger of them
WrittenVolume(tx) ==
  IF tx.description.template = "SWAP: {} {} <arrow> {} {}; {}"
  THEN Max(tx.description.args[1], tx.description.args[3]) ELSE 0

\* C13: the trading volume StatsCards shows for the transactions produced by
\* getTransactionDetails is the sum, over the transactions counted as swaps,
\* of the larger of the two amounts written in the swap description.
C13_TradingVolume ==
  (txResult # <<>> /\ ~txResult[1].isNull)
    => TradingVolume(txResult) = IF CountedAsSwap(txResult[1]) THEN WrittenVolume(txResult[1]) ELSE 0

\* C14: getTokenBalance(mint, owner) returns the owner's balance of the mint
\* whenever the owner holds it, whatever else the owner holds, and 0 when the
\* mint is not held or the request fails.
C14_TokenBalance ==
  /\ utilCall.pc = "returned"
       => utilCall.balance = BalanceIn(AssetsByOwner(utilCall.holdings, WholeWalletParams),
                                       utilCall.mint)
  /\ utilCall.pc = "caught" => utilCall.balance = 0

\* a <= b on SOL amounts
SolLeq(a, b) == a.whole < b.whole \/ (a.whole = b.whole /\ a.nano <= b.nano)

LoadingIffInFlight ==
  /\ dash.loading <=> dash.loads # <<>>
  /\ \A k \in DOMAIN dash.loads : ValidAddress(dash.loads[k])
  /\ Len(dash.loads) <= 1

\* C16 as stated: loading is true if and only if a load is in flight, at most
\* one load is in flight at any time, and the displayed walletData belongs to
\* the most recently submitted address.
C16_AsStated ==
  /\ LoadingIffInFlight
  /\ dash.walletData # <<>> => <<dash.walletData[1].address>> = dash.submitted

\* C16, amended: loading is true if and only if a load is in flight, and at
\* most one load is in flight at any time; when no load is in flight the
\* displayed walletData belongs to the most recently submitted address, and
\* while a load is in flight it still is what it was before the submission
\* (nothing, or the data of the address submitted before).
C16_LoadingAndData ==
  /\ LoadingIffInFlight
  /\ (~dash.loading /\ dash.submitted # <<>>)
       => dash.walletData # <<>> /\ <<dash.walletData[1].address>> = dash.submitted
  /\ dash.loading
       => IF dash.previous = <<>> THEN dash.walletData = <<>>
          ELSE dash.walletData # <<>> /\ <<dash.walletData[1].address>> = dash.previous

\* a second address has been submitted and its load has resolved
C16_Witness ==
  /\ ~dash.loading /\ dash.loads = <<>>
  /\ dash.previous # <<>> /\ dash.previous # dash.submitted
  /\ dash.walletData # <<>> /\ <<dash.walletData[1].address>> = dash.submitted
  /\ dash.toast = "Wallet loaded successfully"

\* the pages of the call whose getRecentTransactions has returned
ReturnedPages ==
  IF allTxCall.pc \in {"signatures", "batch", "batchDelay"}
  THEN 1..(Len(allTxCall.pages) - 1) ELSE 1..Len(allTxCall.pages)

\* the signatures of the list whose details were fetched, in the list's order
FetchedOf(signatures, ledger) == SelectSeq(signatures, LAMBDA sig : ledger[sig])

\* C17: getRecentTransactions works in batches of 3: at most 3
\* getTransactionDetails calls are in flight, the calls in flight belong to
\* the current batch and every call of the batches before has settled while
\* no call of a later batch has started, and the transactions returned for a
\* page are those of its signature list whose details came, in the list's order.
C17_BatchesOfThree ==
  /\ Cardinality(allTxCall.inFlight) <= 3
  /\ allTxCall.pc \in {"batch", "batchDelay"} =>
       /\ allTxCall.inFlight \subseteq (allTxCall.i + 1)..(allTxCall.i + 3)
       /\ \A p \in DOMAIN allTxCall.signatures :
            /\ p <= allTxCall.i => allTxCall.settled[p] # "pending"
            /\ p > allTxCall.i + 3 => allTxCall.settled[p] = "pending" /\ p \notin allTxCall.inFlight
            /\ allTxCall.settled[p] = "pending" /\ p <= allTxCall.i + 3
                 => p \in allTxCall.inFlight
  /\ \A k \in ReturnedPages :
       LET page == allTxCall.pages[k]
       IN /\ page.transactions = FetchedOf(page.signatures, allTxCall.ledger)
          /\ \A a \in DOMAIN page.transactions, b \in DOMAIN page.transactions :
               a < b => page.transactions[a] < page.transactions[b]

\* the second batch of a page is in flight after a first batch whose second
\* signature had no details
C17_Witness ==
  /\ allTxCall.pc = "batch" /\ allTxCall.i = 3
  /\ allTxCall.inFlight = {4}
  /\ allTxCall.transactions = <<allTxCall.signatures[1], allTxCall.signatures[3]>>

\* the signatures asked of the node over the pages of the call, page after page
RECURSIVE RequestedSignatures(_)
RequestedSignatures(pages) ==
  IF pages = <<>> THEN <<>>
  ELSE RequestedSignatures(SubSeq(pages, 1, Len(pages) - 1)) \o pages[Len(pages)].signatures

\* C18: the first page is asked without a cursor and every later page with
\* before = the last signature of the signature list of the page before,
\* whether or not its details came; hasMore of a returned page is true
\* exactly when the page had limit signatures; over the pages of one call no
\* signature is asked twice and none between two pages is skipped.
C18_Cursor ==
  /\ \A k \in DOMAIN allTxCall.pages :
       IF k = 1 THEN allTxCall.pages[k].before = 0
       ELSE /\ allTxCall.pages[k - 1].signatures # <<>>
            /\ allTxCall.pages[k].before
                 = allTxCall.pages[k - 1].signatures[Len(allTxCall.pages[k - 1].signatures)]
  /\ \A k \in ReturnedPages :
       allTxCall.pages[k].hasMore
         <=> Len(allTxCall.pages[k].signatures) = allTxCall.pages[k].limit
  /\ LET requested == RequestedSignatures(allTxCall.pages)
     IN \A n \in DOMAIN requested : requested[n] = n

\* a second page has been asked with a cursor whose details could not be fetched
C18_Witness ==
  /\ allTxCall.pc = "returned" /\ Len(allTxCall.pages) >= 2
  /\ allTxCall.pages[1].hasMore
  /\ ~allTxCall.ledger[allTxCall.pages[2].before]
  /\ allTxCall.pages[2].signatures # <<>>

\* the TTLs of the three caches as stated: 30 s, 1 min, 5 min
StatedTtl(fn) ==
  CASE fn = "getSolPrice"    -> TTL_SOL_PRICE
    [] fn = "getTokenPrice"  -> TTL_TOKEN_PRICE
    [] fn = "getTokenSymbol" -> TTL_TOKEN_METADATA

\* the call started within the TTL of the last fetch that succeeded for its key
WithinTtl(call) ==
  call.before # <<>> /\ call.startedAt - call.before[1].at <= StatedTtl(call.fn)

C20_FailuresNotCached ==
  /\ [](\A c \in 1..NumGetterCalls :
          LET call == priceCall.calls[c]
          IN call.pc # "idle" =>
               /\ (call.pc = "done" /\ call.failed) =>
                     call.value = IF call.fn = "getTokenSymbol"
                                  THEN <<ShortenedMint(call.key)>> ELSE <<0>>
               /\ call.hit => call.before # <<>> /\ call.value = call.before[1].value
               /\ call.before = <<>> => /\ ~call.hit
                                        /\ call.pc = "done" => call.requests >= 1)
  /\ [][\A c \in 1..NumGetterCalls :
          (priceCall.calls[c].pc = "fetching" /\ priceCall'.calls[c].pc = "done"
             /\ priceCall'.calls[c].failed)
            => UNCHANGED <<tokenSymbolCache, tokenPrices, solPrice>>]_vars

\* a getTokenPrice call has failed and returned 0, and the next call for the
\* same mint has issued a request
C20_Witness ==
  /\ priceCall.calls[1].pc = "done" /\ priceCall.calls[1].failed
  /\ priceCall.calls[1].fn = "getTokenPrice" /\ priceCall.calls[1].value = <<0>>
  /\ priceCall.calls[2].pc = "fetching" /\ priceCall.calls[2].fn = "getTokenPrice"
  /\ priceCall.calls[2].key = priceCall.calls[1].key
  /\ priceCall.calls[2].startedAt > priceCall.calls[1].settledAt
  /\ tokenPrices = <<>>

\* how often the timestamp is in the list
Occurrences(reqs, ts) == Cardinality({n \in DOMAIN reqs : reqs[n] = ts})

\* C21: no rate-limiter record is lost under interleaving -- whenever a
\* waitForSlot call completes for a key, the list stored for the key holds
\* afterwards every timestamp of the current window that it held before
\* (those that other callers stored, also while this caller waited) and, in
\* addition, a timestamp for the call that completes.
C21_NoRecordLost ==
  [][\A key \in RLKeys :
       Len(rlAdmitted'[key]) = Len(rlAdmitted[key]) + 1 =>
         \E own \in 0..clock : \A ts \in 0..clock :
           Occurrences(rlRequests'[key], ts)
             >= (IF ts > clock - WindowTicks THEN Occurrences(rlRequests[key], ts) ELSE 0)
                  + (IF ts = own THEN 1 ELSE 0)]_vars

====
